---- MODULE Spec2Model ----
(***************************************************************************)
(* State machine of the decision-and-execution pipeline of the trading     *)
(* bot: the execution engine (app/services/execution_engine.py), the       *)
(* advisory agent (app/services/ai_agent.py), the probability estimator    *)
(* (app/services/ml_engine.py) and the auto-trader's analysis of a symbol  *)
(* (app/services/auto_trader.py).                                          *)
(*                                                                         *)
(* Numbers.  Prices, quantities and money are integers.  Every requested   *)
(* price is a multiple of SlippageDiv * Unit, so the paper slippage        *)
(* (price * 0.0001) and every averaged entry price ((entry + fill) / 2,    *)
(* at most MaxOrders - 1 times) are exact.                                 *)
(***************************************************************************)
EXTENDS Integers, Sequences, FiniteSets, TLC

(***************************************************************************)
(* Bounds of the model.                                                    *)
(***************************************************************************)
\* Orders the API caller places in one behaviour (caps order_counter).
MaxOrders == 2
\* Calls of update_positions and close_position in one behaviour.
MaxPriceOps == 2
\* Iterations of the scan loop, and of the stream loop, in one behaviour.
MaxScanCycles == 1
MaxStreamCycles == 2
\* Turns of the reconnect monitor's loop in one behaviour.
MaxChecks == 4
\* The analyses followed with the outside world in view.
MaxAnalyses == 1
\* The bars of a backtest after the first hundred.
MaxBars == 4
\* The scan threads start() spawns while start() and stop() are followed.
MaxLoopThreads == 2
\* The longest price series an indicator is called on.
MaxSeries == 4

(***************************************************************************)
(* Program constants.                                                      *)
(***************************************************************************)
\* paper_balance / paper_equity at construction.
InitialBalance == 10000
\* 1 / 0.0001, the paper-mode slippage factor.
SlippageDiv == 10000
\* AutoTrader.signal_cooldown, seconds.
signal_cooldown == 300
\* Advisor confidence needed at ADVISOR_CHECK, percent.
AdvisorMinConfidence == 50
\* The 0.01 tolerance of RISK_REWARD_CHECK, in hundredths.
RiskRewardTolerance == 1
\* Advisor confidence above which the probability gets its bonus, percent.
ConsensusLevel == 80
\* The bonus, and the cap of the boosted probability, percent.
ConsensusBonus == 5
ProbabilityCap == 95
\* LIQUIDITY_CHECK: the spread may be at most this share of the range, percent.
SpreadLimit == 30
\* calculate_compounding_lot: equity above which the lot grows, and the
\* drawdown (percent) above which it shrinks.
GrowthThreshold == 10000
DrawdownLimit == 2
\* A threshold one above the shipped one.
Mutant_min_score_threshold == 1 + 1
\* generate_signal: the score a signal needs, and the model units of one
\* price unit.
min_score_threshold == 1
LevelScale == 400000
\* The candles _analyze_market needs, and those generate_signal needs.
MinCandles == 50
MinHistory == 100
\* time.time() when the trader is constructed (any value past the cooldown).
StartTime == 1000

(***************************************************************************)
(* Input sets.                                                             *)
(***************************************************************************)
Symbols == {"EURUSD", "GBPUSD"}
Sides == {"BUY", "SELL"}
Quantities == {1}
Unit == 2 ^ MaxOrders
BasePrice == SlippageDiv * Unit
StopDist == 200 * Unit
\* Prices a tick can carry: at the lower level, strictly inside, at the upper level.
TickPrices == {BasePrice - StopDist, BasePrice + 100 * Unit, BasePrice + StopDist}
\* Stop and target a caller sends with an order of the given side.
StopOf(side) == IF side = "BUY" THEN BasePrice - StopDist ELSE BasePrice + StopDist
TargetOf(side) == IF side = "BUY" THEN BasePrice + StopDist ELSE BasePrice - StopDist
\* What mt5.order_send can do: fill at a price, decline, return None, raise.
GatewayOutcomes ==
    [kind : {"done"}, price : {BasePrice + Unit}]
        \cup [kind : {"declined", "none", "raise"}, price : {0}]
\* Paper mode sends nothing to the gateway.
NoGateway == [kind |-> "paper", price |-> 0]

\* Optional values: None is the empty sequence, Some(v) a one-element sequence.
None == <<>>
Some(v) == <<v>>

VARIABLES
    paper_trading,   \* ExecutionEngine.paper_trading
    mt5_connected,   \* ExecutionEngine.mt5_connected
    orders,          \* ExecutionEngine.orders, indexed by order_counter
    positions,       \* ExecutionEngine.positions, in insertion order
    trade_history,   \* ExecutionEngine.trade_history (order ids)
    order_counter,   \* ExecutionEngine.order_counter
    paper_balance,   \* ExecutionEngine.paper_balance
    paper_equity,    \* ExecutionEngine.paper_equity
    last_op,         \* the last engine call: its name, arguments and outcome
    price_ops,       \* update_positions and close_position calls made so far
    rt_connected,    \* realtime_service.mt5_connected
    settings,        \* settings_store._settings (the keys the analysis reads)
    min_confidence,  \* AutoTrader.min_confidence, percent
    min_risk_reward, \* AutoTrader.min_risk_reward, hundredths
    last_signal_time,\* AutoTrader.last_signal_time
    now,             \* time.time()
    ollama_ready,    \* AIAgent.ollama_ready
    loaded_models,   \* AIAgent.loaded_models
    ml_engine,       \* the estimator behind auto_trader.ml_engine
    analysis,        \* the last run of AutoTrader._analyze_market
    qe_input,        \* what a call of QuantEngine.generate_signal is given
    qe_signal,       \* what that call returned
    threads,         \* the engine's concurrent callers: where each one is
    trader,          \* AutoTrader.running, AutoTrader.stop_event, and whether
                     \* the posted quant_confidence is a number
    loop,            \* the scan thread and the stream thread: where each is
    service,         \* RealTimeDataService: its flags, mode and two threads
    outside,         \* the calendar and the tick the last analysis met
    fn_call,         \* the last call of a function: name, arguments, result
    backtest,        \* BacktestEngine and the bar run_backtest has reached
    auto_trader      \* AutoTrader.running, stop_event and thread, every scan
                     \* thread start() has spawned, and the last call made

engine_vars == <<paper_trading, mt5_connected, orders, positions, trade_history,
                 order_counter, paper_balance, paper_equity, last_op, price_ops>>

trader_vars == <<rt_connected, settings, min_confidence, min_risk_reward,
                 last_signal_time, now, ollama_ready, loaded_models, ml_engine,
                 analysis>>

quant_vars == <<qe_input, qe_signal>>

bench_vars == <<outside, fn_call, backtest, auto_trader>>

rest_vars == <<quant_vars, threads, trader, loop, service, bench_vars>>

vars == <<engine_vars, trader_vars, rest_vars>>

(***************************************************************************)
(* The position map: a Python dict, which iterates in insertion order.     *)
(***************************************************************************)
HasPosition(ps, symbol) == \E i \in 1..Len(ps) : ps[i].symbol = symbol
PosIndex(ps, symbol) == CHOOSE i \in 1..Len(ps) : ps[i].symbol = symbol
PositionOf(ps, symbol) == ps[PosIndex(ps, symbol)]
RemoveAt(ps, i) == SubSeq(ps, 1, i - 1) \o SubSeq(ps, i + 1, Len(ps))
RECURSIVE SumUnrealized(_)
SumUnrealized(ps) ==
    IF ps = <<>> THEN 0 ELSE Head(ps).unrealized_pnl + SumUnrealized(Tail(ps))

(***************************************************************************)
(* Order(...) as place_order constructs it.  status_log lists every value  *)
(* assigned to order.status, in order.                                     *)
(***************************************************************************)
Order(id, symbol, side, quantity, price, stop_loss, take_profit) ==
    [id |-> id, symbol |-> symbol, side |-> side, quantity |-> quantity,
     price |-> price, stop_loss |-> stop_loss, take_profit |-> take_profit,
     status |-> "PENDING", filled_price |-> None, filled_quantity |-> 0,
     status_log |-> <<"PENDING">>]

SetStatus(order, status) ==
    [order EXCEPT !.status = status, !.status_log = Append(@, status)]

(***************************************************************************)
(* ExecutionEngine._execute_paper_order: fill with slippage, then create   *)
(* the position or merge into the existing one, then record the trade.     *)
(***************************************************************************)
_execute_paper_order(order, ps, history, slip_sign) ==
    LET slippage == (order.price * slip_sign) \div SlippageDiv
        fill_price == order.price + slippage
        filled == [SetStatus(order, "FILLED") EXCEPT
                      !.filled_price = Some(fill_price),
                      !.filled_quantity = order.quantity]
        ps2 == IF HasPosition(ps, order.symbol)
               THEN LET i == PosIndex(ps, order.symbol)
                    IN [ps EXCEPT ![i].quantity = @ + order.quantity,
                                  ![i].entry_price = (@ + fill_price) \div 2]
               ELSE Append(ps, [symbol |-> order.symbol,
                                side |-> order.side,
                                quantity |-> order.quantity,
                                entry_price |-> fill_price,
                                current_price |-> fill_price,
                                stop_loss |-> order.stop_loss,
                                take_profit |-> order.take_profit,
                                unrealized_pnl |-> 0,
                                realized_pnl |-> 0])
    IN [order |-> filled, positions |-> ps2,
        trade_history |-> Append(history, order.id)]

(***************************************************************************)
(* Faulty variants of _execute_mt5_order.                                  *)
(***************************************************************************)
\* The except branch forgets to reject: an order_send that raises (or returns
\* None) leaves the order PENDING.
Mutant_mt5_except_keeps_pending(order, ps, history, connected, gw) ==
    LET rejected == SetStatus(order, "REJECTED")
        filled == [SetStatus(order, "FILLED") EXCEPT
                      !.filled_price = Some(gw.price),
                      !.filled_quantity = order.quantity]
    IN [order |-> IF ~connected THEN rejected
                  ELSE IF gw.kind = "done" THEN filled
                  ELSE IF gw.kind = "declined" THEN rejected
                  ELSE order,
        positions |-> ps,
        trade_history |-> history]

\* Every order sent to the gateway is recorded as a trade, declined or not.
Mutant_mt5_records_rejected(order, ps, history, connected, gw) ==
    LET rejected == SetStatus(order, "REJECTED")
        filled == [SetStatus(order, "FILLED") EXCEPT
                      !.filled_price = Some(gw.price),
                      !.filled_quantity = order.quantity]
    IN [order |-> IF ~connected THEN rejected
                  ELSE IF gw.kind = "done" THEN filled
                  ELSE rejected,
        positions |-> ps,
        trade_history |-> IF connected THEN Append(history, order.id)
                          ELSE history]

(***************************************************************************)
(* ExecutionEngine._execute_mt5_order: only the order is written.          *)
(* result = None makes result.retcode raise, which the handler catches.    *)
(***************************************************************************)
_execute_mt5_order(order, ps, history, connected, gw) ==
    LET rejected == SetStatus(order, "REJECTED")
        filled == [SetStatus(order, "FILLED") EXCEPT
                      !.filled_price = Some(gw.price),
                      !.filled_quantity = order.quantity]
    IN [order |-> IF ~connected THEN rejected
                  ELSE IF gw.kind = "done" THEN filled
                  ELSE rejected,
        positions |-> ps,
        trade_history |-> history]

(***************************************************************************)
(* Faulty variant of close_position: the pnl of a SELL position is         *)
(* computed with the sign of a BUY.                                        *)
(***************************************************************************)
Mutant_close_position_sell_sign(e, symbol, current_price) ==
    IF ~HasPosition(e.positions, symbol)
    THEN [e |-> e, result |-> None]
    ELSE LET i == PosIndex(e.positions, symbol)
             pos == e.positions[i]
             pnl == (current_price - pos.entry_price) * pos.quantity
             balance == IF e.paper_trading THEN e.paper_balance + pnl
                        ELSE e.paper_balance
             equity == IF e.paper_trading THEN balance ELSE e.paper_equity
         IN [e |-> [e EXCEPT !.positions = RemoveAt(e.positions, i),
                             !.paper_balance = balance,
                             !.paper_equity = equity],
             result |-> Some(pnl)]

(***************************************************************************)
(* ExecutionEngine.close_position on the engine record e.                  *)
(***************************************************************************)
close_position(e, symbol, current_price) ==
    IF ~HasPosition(e.positions, symbol)
    THEN [e |-> e, result |-> None]
    ELSE LET i == PosIndex(e.positions, symbol)
             pos == e.positions[i]
             pnl == IF pos.side = "BUY"
                    THEN (current_price - pos.entry_price) * pos.quantity
                    ELSE (pos.entry_price - current_price) * pos.quantity
             balance == IF e.paper_trading THEN e.paper_balance + pnl
                        ELSE e.paper_balance
             equity == IF e.paper_trading THEN balance ELSE e.paper_equity
         IN [e |-> [e EXCEPT !.positions = RemoveAt(e.positions, i),
                             !.paper_balance = balance,
                             !.paper_equity = equity],
             result |-> Some(pnl)]

(***************************************************************************)
(* ExecutionEngine.update_positions: the loop over self.positions.items(). *)
(* close_position deletes from the dict being iterated, so the iterator's  *)
(* next step raises RuntimeError ("dictionary changed size during          *)
(* iteration"): the positions after the closed one are not visited and the *)
(* final assignment to paper_equity is not reached.                        *)
(***************************************************************************)
RECURSIVE update_loop(_, _, _, _)
update_loop(e, i, prices, total_unrealized) ==
    IF i > Len(e.positions)
    THEN [e |-> [e EXCEPT !.paper_equity = e.paper_balance + total_unrealized],
          raised |-> FALSE]
    ELSE LET pos == e.positions[i]
         IN IF pos.symbol \notin DOMAIN prices
            THEN update_loop(e, i + 1, prices, total_unrealized)
            ELSE LET price == prices[pos.symbol]
                     upnl == IF pos.side = "BUY"
                             THEN (price - pos.entry_price) * pos.quantity
                             ELSE (pos.entry_price - price) * pos.quantity
                     e2 == [e EXCEPT !.positions[i].current_price = price,
                                     !.positions[i].unrealized_pnl = upnl]
                     hit == IF pos.side = "BUY"
                            THEN price <= pos.stop_loss \/ price >= pos.take_profit
                            ELSE price >= pos.stop_loss \/ price <= pos.take_profit
                 IN IF hit
                    THEN [e |-> close_position(e2, pos.symbol, price).e,
                          raised |-> TRUE]
                    ELSE update_loop(e2, i + 1, prices, total_unrealized + upnl)

update_positions(e, prices) == update_loop(e, 1, prices, 0)

(***************************************************************************)
(* The auto-trader's collaborators.  Confidences, probabilities and        *)
(* thresholds are in percent, risk/reward in hundredths, lots in           *)
(* hundredths of a lot.                                                    *)
(***************************************************************************)
\* AIAgent.model
Model == "llama3.1:8b"
OtherModel == "mistral:7b"

\* What GET /api/tags can answer to _check_ollama_health.
HealthOutcomes ==
    [kind : {"ok"}, models : {{}, {Model}, {OtherModel}}]
        \cup [kind : {"bad_status", "raise"}, models : {{}}]
NoHealth == [kind |-> "not_asked", models |-> {}]

\* What POST /api/generate can answer to validate_signal: a JSON object with
\* decision and confidence, one without confidence, JSON that is no object,
\* free text, a status other than 200, or no answer at all.
AdvisorAnswers ==
    {[kind |-> "json", decision |-> "BUY", confidence |-> 40],
     [kind |-> "json", decision |-> "BUY", confidence |-> 50],
     [kind |-> "json", decision |-> "BUY", confidence |-> 90],
     [kind |-> "json", decision |-> "SELL", confidence |-> 90],
     [kind |-> "json", decision |-> "HOLD", confidence |-> 90]}
AdvisorReplies ==
    AdvisorAnswers
        \cup [kind : {"json_no_confidence"}, decision : {"BUY"}, confidence : {0}]
        \cup [kind : {"text"}, decision : {"BUY", "SELL", "BUY SELL", ""},
              confidence : {0}]
        \cup [kind : {"json_not_object", "bad_status", "unreachable", "timeout"},
              decision : {""}, confidence : {0}]
NoReply == [kind |-> "not_asked", decision |-> "", confidence |-> 0]

\* A validation dict: each key present or absent.
Validation(decision, confidence) ==
    [decision |-> decision, confidence |-> confidence]
\* {"decision": "HOLD", "confidence": 0.0, "reason": ...}
Hold == Validation(Some("HOLD"), Some(0))

\* AIAgent state
Agent == [ollama_ready |-> ollama_ready, loaded_models |-> loaded_models]

\* AIAgent._check_ollama_health
_check_ollama_health(agent, health) ==
    IF health.kind = "ok"
    THEN [ollama_ready |-> health.models # {}, loaded_models |-> health.models]
    ELSE [agent EXCEPT !.ollama_ready = FALSE]

\* The request and the parsing of its answer in AIAgent.validate_signal.
QueryAdvisor(reply) ==
    CASE reply.kind = "json" ->
            Validation(Some(reply.decision), Some(reply.confidence))
      [] reply.kind = "json_no_confidence" ->
            Validation(Some(reply.decision), None)
      [] reply.kind = "text" ->
            IF reply.decision \in {"BUY", "BUY SELL"}
            THEN Validation(Some("BUY"), Some(50))
            ELSE IF reply.decision = "SELL"
                 THEN Validation(Some("SELL"), Some(50))
                 ELSE Hold
      [] OTHER -> Hold

\* An advisor that fails open: offline, it waves the signal through.
Mutant_validate_signal_fails_open(agent, signal_data, health, reply) ==
    IF ~agent.ollama_ready
    THEN [response |-> Validation(Some(signal_data.direction), Some(50)),
          agent |-> agent]
    ELSE LET checked == IF Model \notin agent.loaded_models
                        THEN _check_ollama_health(agent, health)
                        ELSE agent
         IN IF Model \notin checked.loaded_models
            THEN [response |-> Hold, agent |-> checked]
            ELSE [response |-> QueryAdvisor(reply), agent |-> checked]

\* AIAgent.validate_signal: the validation it returns and the agent state it
\* leaves.
validate_signal(agent, signal_data, health, reply) ==
    IF ~agent.ollama_ready
    THEN [response |-> Hold, agent |-> agent]
    ELSE LET checked == IF Model \notin agent.loaded_models
                        THEN _check_ollama_health(agent, health)
                        ELSE agent
         IN IF Model \notin checked.loaded_models
            THEN [response |-> Hold, agent |-> checked]
            ELSE [response |-> QueryAdvisor(reply), agent |-> checked]

\* dict.get(key, default) on a validation dict
Get(opt, default) == IF opt = None THEN default ELSE opt[1]

Min(a, b) == IF a < b THEN a ELSE b
Max(a, b) == IF a > b THEN a ELSE b
\* n / d to the nearest integer, d > 0.
RoundDiv(n, d) == (2 * n + d) \div (2 * d)

\* What quant_engine.generate_signal can return: nothing, or a BUY or SELL
\* setup with its confidence and risk/reward.
Signals == [direction : Sides, confidence : {30, 50}, risk_reward : {148, 149}]
SignalOutcomes == {None} \cup {Some(s) : s \in Signals}
\* The candles get_historical_candles returned (100 are asked for): how
\* many, and whether every close among them is a price.
CandleCounts == {0, 49, 50, 99, 100}
CandleOutcomes ==
    [count : CandleCounts, valid : {TRUE}] \cup [count : {100}, valid : {FALSE}]
\* A generate_signal that scores whatever history it is given.
Mutant_generate_signal_any_history(candles, scored) == scored
\* QuantEngine.generate_signal: nothing on fewer than 100 candles, otherwise
\* what the scoring of the candles yields.
generate_signal(candles, scored) ==
    IF candles.count < MinHistory THEN None ELSE scored

(***************************************************************************)
(* QuantEngine.generate_signal, from the scores to the levels.  A price    *)
(* unit is LevelScale model units, so that the stop and the three targets  *)
(* (ATR x multiplier x entropy, the multipliers in tenths, the target      *)
(* risk/reward and the entropy in hundredths, TP1 three quarters of TP2)   *)
(* are integers.                                                           *)
(***************************************************************************)
Regimes == {"TRENDING_STRONG", "TRENDING_WEAK", "RANGING", "VOLATILE", "BREAKOUT"}
\* settings 'target_risk_reward' as shipped and as the dashboard may post it.
TargetRiskRewards == {0, 150, 200}
\* random.uniform(0.98, 1.02) and random.uniform(0.95, 1.05), in hundredths.
Entropies == {98, 100, 102}
ConfidenceEntropies == {95, 105}
\* close[-1] of the candles, in price units.
CurrentPrice == 100
\* The 100 candles as generate_signal sees them.  Flat candles (every open,
\* high, low and close the same price) have a true range of 0 throughout, so
\* an ATR of 0; their EMAs coincide, the RSI is 99 (no losses), the price is
\* not above the VWAP: the total score is -2 in a RANGING regime.  Candles
\* that move have a positive ATR and any score.
QuantInputs ==
    [count : {99, 100}, flat : {FALSE}, total_score : -2..2, regime : Regimes,
     atr_current : {2, 7}, target_rr : TargetRiskRewards, entropy : Entropies,
     confidence_entropy : ConfidenceEntropies]
    \cup
    [count : {100}, flat : {TRUE}, total_score : {-2}, regime : {"RANGING"},
     atr_current : {0}, target_rr : TargetRiskRewards, entropy : Entropies,
     confidence_entropy : ConfidenceEntropies]
NoQuantInput ==
    [count |-> 0, flat |-> FALSE, total_score |-> 0, regime |-> "RANGING",
     atr_current |-> 0, target_rr |-> 150, entropy |-> 100,
     confidence_entropy |-> 95]

Abs(x) == IF x < 0 THEN -x ELSE x

\* The stop multiplier of the regime, in tenths (lines 333-340).
sl_mult(regime) ==
    CASE regime = "TRENDING_STRONG" -> 15
      [] regime = "TRENDING_WEAK" -> 20
      [] regime = "BREAKOUT" -> 25
      [] OTHER -> 15

\* Lines 317-398 of generate_signal: nothing for a score under the threshold
\* of 1, otherwise the signal with its levels.
score_signal(q) ==
    IF Abs(q.total_score) < min_score_threshold THEN None
    ELSE LET direction == IF q.total_score > 0 THEN "BUY" ELSE "SELL"
             raw_confidence == Min(Abs(q.total_score) * 20, 100)
             confidence == Min(RoundDiv(raw_confidence * q.confidence_entropy,
                                        100), 100)
             current_price == CurrentPrice * LevelScale
             base == q.atr_current * sl_mult(q.regime) * q.entropy
             sl_dist == base * 400
             tp2_dist == base * q.target_rr * 4
             tp1_dist == base * q.target_rr * 3
             tp3_dist == base * q.target_rr * 6
             sign == IF direction = "BUY" THEN 1 ELSE -1
             stop_loss == current_price - sign * sl_dist
             tp2 == current_price + sign * tp2_dist
             risk == Abs(current_price - stop_loss)
             reward == Abs(tp2 - current_price)
         IN Some([direction |-> direction,
                  confidence |-> confidence,
                  entry_price |-> current_price,
                  stop_loss |-> stop_loss,
                  take_profit_1 |-> current_price + sign * tp1_dist,
                  take_profit_2 |-> tp2,
                  take_profit_3 |-> current_price + sign * tp3_dist,
                  risk_reward |-> IF risk > 0 THEN (reward * 100) \div risk
                                  ELSE 0])

\* No call of generate_signal is recorded.
QuantIdle ==
    /\ qe_input = NoQuantInput
    /\ qe_signal = None

\* settings_store._settings as shipped, and the values the dashboard posts.
DefaultSettings ==
    [quant_confidence |-> 40, risk_reward_min |-> 150, ml_threshold |-> 60,
     news_buffer |-> 30, telegram_enabled |-> TRUE, telegram_chat_id |-> ""]
ConfidenceSettings == {40, 60}

\* The features _analyze_market hands to the estimator: the hour of the day
\* and the volatility in hundredths of a percent.
Features == [hour : {3, 12}, volatility : {10, 100, 600}]

\* A local variable of a Python function: unbound until assigned; an
\* augmented assignment to an unbound local raises UnboundLocalError.
UnboundLocal == [bound |-> FALSE, raised |-> FALSE, value |-> 0]
AugAssign(local, delta) ==
    IF local.raised THEN local
    ELSE IF ~local.bound THEN [local EXCEPT !.raised = TRUE]
         ELSE [local EXCEPT !.value = @ + delta]

\* MLEngine.predict_probability: prob is never assigned before it is read.
predict_probability(features) ==
    LET hour == features.hour
        vol == features.volatility
        p1 == IF 8 <= hour /\ hour <= 18
              THEN AugAssign(UnboundLocal, 10) ELSE UnboundLocal
        p2 == IF 30 < vol /\ vol < 300 THEN AugAssign(p1, 10)
              ELSE IF vol > 500 THEN AugAssign(p1, -10) ELSE p1
    IN IF p2.raised \/ ~p2.bound
       THEN [raised |-> TRUE, value |-> 0]
       ELSE [raised |-> FALSE, value |-> Min(95, Max(5, p2.value))]

\* The learned estimator that is to replace the heuristic: a probability.
LearnedProbabilities == {50, 57, 90}
\* The outcomes of ml_engine.predict_probability for either estimator.
EstimatorOutcomes(estimator) ==
    IF estimator = "heuristic"
    THEN {predict_probability(f) : f \in Features}
    ELSE [raised : {FALSE}, value : LearnedProbabilities]

\* The probability after the consensus bonus.
Boosted(prob, ai_confidence) ==
    IF ai_confidence > ConsensusLevel
    THEN Min(ProbabilityCap, prob + ConsensusBonus) ELSE prob

\* What the calendar holds for the symbol: nothing near, a high-impact event
\* 30 minutes ahead, one 45 minutes ahead, or no feed at all (_fetch_events
\* then returns no events).
NewsOutcomes == {"clear", "event_in_window", "event_ahead", "feed_down"}

\* The letters of the symbols and of the calendar's country codes.
Letters ==
    [EURUSD |-> <<"E", "U", "R", "U", "S", "D">>,
     GBPUSD |-> <<"G", "B", "P", "U", "S", "D">>,
     EURGBP |-> <<"E", "U", "R", "G", "B", "P">>,
     EUR |-> <<"E", "U", "R">>, GBP |-> <<"G", "B", "P">>,
     USD |-> <<"U", "S", "D">>, JPY |-> <<"J", "P", "Y">>]
\* A calendar event as the feed gives it: impact, country, its time as
\* minutes from now, and whether its date string carries a UTC offset
\* ("...T08:30:00-05:00", "...Z") or none.
EventOffsets == {-16, -15, 0, 30, 31, 45}
CalendarEvents ==
    [impact : {"High", "Medium"}, country : {"EUR", "GBP", "USD", "JPY"},
     offset : EventOffsets, aware : BOOLEAN]
\* The buffers asked for, in minutes.
NewsBuffers == {30, 60}
\* The calendar URL: it answers with its events, or the request fails.
Feeds ==
    [status : {"ok"}, events : {<<>>} \cup {<<e>> : e \in CalendarEvents}]
        \cup {[status |-> "down", events |-> <<>>]}
\* event_date - now, now being datetime.now() without a time zone: TypeError
\* for a date that carries an offset.
TimeUntil(event) ==
    IF event.aware THEN [raised |-> TRUE, minutes |-> 0]
    ELSE [raised |-> FALSE, minutes |-> event.offset]
\* NewsService._fetch_events with an empty cache: the events within 24
\* hours; an event whose date cannot be compared is dropped, a failed
\* request gives no events.
_fetch_events(feed) ==
    IF feed.status # "ok" THEN <<>>
    ELSE SelectSeq(feed.events,
                   LAMBDA e : /\ ~TimeUntil(e).raised
                              /\ TimeUntil(e).minutes < 24 * 60
                              /\ -TimeUntil(e).minutes < 24 * 60)
\* NewsService.check_news_stop
check_news_stop(feed, symbol, buffer_minutes) ==
    LET events == _fetch_events(feed)
        base == SubSeq(Letters[symbol], 1, 3)
        quote == IF Len(Letters[symbol]) >= 6
                 THEN SubSeq(Letters[symbol], 4, 6) ELSE <<>>
        blocking_events ==
            SelectSeq(events,
                LAMBDA event :
                    /\ event.impact = "High"
                    /\ Letters[event.country] \in {base, quote, Letters["USD"]}
                    /\ ~TimeUntil(event).raised
                    /\ \/ /\ 0 < TimeUntil(event).minutes
                          /\ TimeUntil(event).minutes <= buffer_minutes
                       \/ /\ -15 <= TimeUntil(event).minutes
                          /\ TimeUntil(event).minutes <= 0)
    IN [stop |-> blocking_events # <<>>, events |-> blocking_events]
\* The feeds behind the three states of the calendar.
FeedOf(news) ==
    CASE news = "clear" -> [status |-> "ok", events |-> <<>>]
      [] news = "event_in_window" ->
            [status |-> "ok",
             events |-> <<[impact |-> "High", country |-> "USD",
                           offset |-> 30, aware |-> FALSE]>>]
      [] news = "event_ahead" ->
            [status |-> "ok",
             events |-> <<[impact |-> "High", country |-> "USD",
                           offset |-> 45, aware |-> FALSE]>>]
      [] news = "feed_down" -> [status |-> "down", events |-> <<>>]
\* Line 267: the call of check_news_stop in step 6.
NewsStop(symbol, s, feed) == check_news_stop(feed, symbol, 30)

\* get_live_price: no tick, or a tick with its spread; range is the
\* high-low range of the last 14 candles.
NoTick == [tick |-> FALSE, spread |-> 0, range |-> 0]
TickOutcomes == {NoTick} \cup [tick : {TRUE}, spread : {3, 5}, range : {0, 10}]
SpreadBlocked(t) ==
    t.tick /\ t.range > 0 /\ 100 * t.spread > SpreadLimit * t.range
\* What a run can meet outside the process: the states of the calendar and
\* the answers of get_live_price.
AnyWorld == [news |-> NewsOutcomes, ticks |-> TickOutcomes]

\* get_account_info: balance and equity, or None for both when disconnected.
Accounts ==
    {[balance |-> None, equity |-> None],
     [balance |-> Some(10000), equity |-> Some(10000)],
     [balance |-> Some(10000), equity |-> Some(40000)],
     [balance |-> Some(10000), equity |-> Some(8000)],
     [balance |-> Some(10000), equity |-> Some(-5000)]}
\* risk_manager.calculate_lot_size: a lot inside the symbol's volume limits.
BaseLots == {0, 1, 5}

RECURSIVE ISqrtIn(_, _, _)
\* The largest r in lo..hi with r * r <= n.
ISqrtIn(n, lo, hi) ==
    IF lo >= hi THEN lo
    ELSE LET mid == (lo + hi + 1) \div 2
         IN IF mid * mid <= n THEN ISqrtIn(n, mid, hi)
            ELSE ISqrtIn(n, lo, mid - 1)

\* The drawdown of line 301 in hundredths of a percent.
Drawdown(balance, equity) ==
    IF balance > 0 THEN ((balance - equity) * 10000) \div balance ELSE 0

\* MLEngine.calculate_compounding_lot; the growth factor in thousandths
\* (the square root of equity / 10000 is at most (equity + 100) / 20).  With
\* a drawdown the product base_lot * growth * (10000 - drawdown) is rounded
\* at 1000 * 10000, computed in two parts to stay within the integers.
calculate_compounding_lot(base_lot, equity, drawdown) ==
    LET growth == IF equity > GrowthThreshold
                  THEN ISqrtIn(equity * 100, 0, (equity + 100) \div 2)
                  ELSE 1000
        scaled == base_lot * growth
        rest == 10000 - drawdown
    IN IF drawdown > DrawdownLimit * 100
       THEN ((scaled \div 1000) * rest + ((scaled % 1000) * rest) \div 1000
             + 5000) \div 10000
       ELSE RoundDiv(scaled, 1000)

\* RiskManager.base_lot in hundredths of a lot, and settings
\* 'risk_per_trade' in percent.
DefaultLot == 1
RiskPerTrade == 1
\* mt5.symbol_info: the volume limits and step in hundredths of a lot and
\* the value of a tick per lot.
Instruments ==
    [volume_min : {1}, volume_max : {10000}, volume_step : {1},
     trade_tick_value : {0, 1}]
    \cup [volume_min : {10}, volume_max : {500}, volume_step : {10},
          trade_tick_value : {1}]
    \cup [volume_min : {100}, volume_max : {1000}, volume_step : {100},
          trade_tick_value : {1}]
\* abs(entry_price - stop_loss) in ticks.
StopDistances == {0, 10, 30, 1000}
\* Python's round(n / d): to the nearest integer, a tie to the even one.
RoundEven(n, d) ==
    LET q == n \div d
        r == n % d
    IN IF 2 * r < d THEN q
       ELSE IF 2 * r > d THEN q + 1
            ELSE IF q % 2 = 0 THEN q ELSE q + 1
\* RiskManager.calculate_lot_size, the account and the instrument being
\* known to the terminal; the lot in hundredths.  The raw lot is the
\* fraction num / den until it is rounded to the step.
calculate_lot_size(equity, symbol_info, distance) ==
    IF distance <= 0 THEN DefaultLot
    ELSE IF symbol_info.trade_tick_value = 0 THEN DefaultLot
    ELSE LET num == equity * RiskPerTrade
             den == distance * symbol_info.trade_tick_value
             capped == IF num > symbol_info.volume_max * den
                       THEN [num |-> symbol_info.volume_max, den |-> 1]
                       ELSE IF num < symbol_info.volume_min * den
                            THEN [num |-> symbol_info.volume_min, den |-> 1]
                            ELSE [num |-> num, den |-> den]
             step == symbol_info.volume_step
         IN RoundEven(capped.num, capped.den * step) * step
\* Lines 291-302 of _analyze_market: the lot handed to _execute_trade.
position_size(account, symbol_info, distance) ==
    IF account.balance = None THEN [raised |-> TRUE, lot |-> 0]
    ELSE [raised |-> FALSE,
          lot |-> calculate_compounding_lot(
                      calculate_lot_size(account.equity[1], symbol_info,
                                         distance),
                      account.equity[1],
                      Drawdown(account.balance[1], account.equity[1]))]

\* The parameters of ExecutionEngine.place_order without a default, all of
\* its parameters, and the keywords _execute_trade passes.
RequiredParameters ==
    {"symbol", "side", "quantity", "price", "stop_loss", "take_profit"}
Parameters == RequiredParameters \cup {"order_type"}
TraderKeywords ==
    {"symbol", "order_type", "quantity", "stop_loss", "take_profit"}
\* Python binds a keyword call only if every keyword is a parameter and
\* every parameter without a default is given; otherwise TypeError.
Binds(keywords) ==
    keywords \subseteq Parameters /\ RequiredParameters \subseteq keywords

(***************************************************************************)
(* AutoTrader._analyze_market.  A run is recorded as: how it ended, the    *)
(* stage it ended in, the collaborators it called in order, the signal,    *)
(* the advisor's state, answer and validation, the final lot and how the   *)
(* place_order call went.                                                  *)
(***************************************************************************)
NoAnalysis ==
    [symbol |-> "", outcome |-> "NONE", stage |-> "READY", calls |-> <<>>,
     connected |-> FALSE, candles |-> None,
     min_confidence |-> 0, min_risk_reward |-> 0,
     signal |-> None, agent |-> None, health |-> NoHealth, reply |-> NoReply,
     ai |-> None, lots |-> None, place |-> "not_called", trade_events |-> 0]

TraderIdle ==
    /\ rt_connected = FALSE
    /\ settings = DefaultSettings
    /\ min_confidence = 40
    /\ min_risk_reward = 150
    /\ last_signal_time = [s \in Symbols |-> 0]
    /\ now = StartTime
    /\ analysis = NoAnalysis

\* The engine's account and position fields as one record.
Engine ==
    [positions |-> positions, paper_balance |-> paper_balance,
     paper_equity |-> paper_equity, paper_trading |-> paper_trading]

NoOp ==
    [op |-> "none", symbol |-> "", order_id |-> 0, gateway |-> "",
     prices |-> <<>>, result |-> None, raised |-> FALSE]

\* Nothing beside the engine and the trader is running.
\* No analysis has met the outside world, no function has been called, no
\* backtest is under way, start() and stop() are not followed.
BenchIdle ==
    /\ outside = <<>>
    /\ fn_call = <<>>
    /\ backtest = <<>>
    /\ auto_trader = <<>>

RestIdle ==
    /\ QuantIdle
    /\ threads = <<>>
    /\ trader = <<>>
    /\ loop = <<>>
    /\ service = <<>>
    /\ BenchIdle

(***************************************************************************)
(* ExecutionEngine.__init__: paper or live; in live mode _init_mt5 may or  *)
(* may not connect.                                                        *)
(***************************************************************************)
Init ==
    /\ paper_trading \in BOOLEAN
    /\ mt5_connected \in (IF paper_trading THEN {FALSE} ELSE BOOLEAN)
    /\ orders = <<>>
    /\ positions = <<>>
    /\ trade_history = <<>>
    /\ order_counter = 0
    /\ paper_balance = InitialBalance
    /\ paper_equity = InitialBalance
    /\ last_op = NoOp
    /\ price_ops = 0
    /\ TraderIdle
    /\ ollama_ready = FALSE
    /\ loaded_models = {}
    /\ ml_engine = "heuristic"
    /\ RestIdle

(***************************************************************************)
(* ExecutionEngine.place_order, as the /order route calls it.              *)
(***************************************************************************)
place_order(symbol, side, quantity, price, stop_loss, take_profit) ==
    /\ order_counter < MaxOrders
    /\ LET order_id == order_counter + 1
           order == Order(order_id, symbol, side, quantity, price,
                          stop_loss, take_profit)
       IN \E slip_sign \in (IF paper_trading THEN {-1, 1} ELSE {0}),
             gw \in (IF paper_trading THEN {NoGateway} ELSE GatewayOutcomes) :
            LET done == IF paper_trading
                        THEN _execute_paper_order(order, positions,
                                                  trade_history, slip_sign)
                        ELSE _execute_mt5_order(order, positions, trade_history,
                                                mt5_connected, gw)
            IN /\ order_counter' = order_id
               /\ orders' = Append(orders, done.order)
               /\ positions' = done.positions
               /\ trade_history' = done.trade_history
               /\ last_op' = [NoOp EXCEPT
                                !.op = "place_order",
                                !.symbol = symbol,
                                !.order_id = order_id,
                                !.gateway = IF paper_trading THEN "paper"
                                            ELSE IF ~mt5_connected
                                                 THEN "not_connected"
                                                 ELSE gw.kind]
    /\ UNCHANGED <<paper_trading, mt5_connected, paper_balance, paper_equity,
                   price_ops, trader_vars, rest_vars>>

PlaceOrder ==
    \E symbol \in Symbols, side \in Sides, quantity \in Quantities :
        place_order(symbol, side, quantity, BasePrice, StopOf(side), TargetOf(side))

(***************************************************************************)
(* ExecutionEngine.close_position called directly.                         *)
(***************************************************************************)
ClosePosition ==
    /\ price_ops < MaxPriceOps
    /\ price_ops' = price_ops + 1
    /\ \E symbol \in Symbols, price \in TickPrices :
        LET done == close_position(Engine, symbol, price)
        IN /\ positions' = done.e.positions
           /\ paper_balance' = done.e.paper_balance
           /\ paper_equity' = done.e.paper_equity
           /\ last_op' = [NoOp EXCEPT !.op = "close_position",
                                      !.symbol = symbol,
                                      !.prices = (symbol :> price),
                                      !.result = done.result]
           /\ UNCHANGED <<paper_trading, mt5_connected, orders, trade_history,
                          order_counter, trader_vars, rest_vars>>

(***************************************************************************)
(* AutoTrader._update_positions: a bid for every open position whose tick  *)
(* is available, handed to ExecutionEngine.update_positions.               *)
(***************************************************************************)
UpdatePositions ==
    /\ price_ops < MaxPriceOps
    /\ price_ops' = price_ops + 1
    /\ \E have \in SUBSET {positions[i].symbol : i \in 1..Len(positions)} :
      \E prices \in [have -> TickPrices] :
        LET done == update_positions(Engine, prices)
        IN /\ positions' = done.e.positions
           /\ paper_balance' = done.e.paper_balance
           /\ paper_equity' = done.e.paper_equity
           /\ last_op' = [NoOp EXCEPT !.op = "update_positions",
                                      !.prices = prices,
                                      !.raised = done.raised]
           /\ UNCHANGED <<paper_trading, mt5_connected, orders, trade_history,
                          order_counter, trader_vars, rest_vars>>

Next == PlaceOrder \/ ClosePosition \/ UpdatePositions

Spec == Init /\ [][Next]_vars

Call(a, collaborator) == [a EXCEPT !.calls = Append(@, collaborator)]

\* A finished run: its record, the advisor's state after it, and whether
\* line 308 stamped last_signal_time.
Finish(a, outcome, stage, agent, stamped) ==
    [analysis |-> [a EXCEPT !.outcome = outcome, !.stage = stage],
     agent |-> agent, stamped |-> stamped]

\* An _execute_trade without the guard on the lot.
Mutant__execute_trade_any_lot(a, lots) ==
    [Call(a, "place_order") EXCEPT
        !.place = IF Binds(TraderKeywords) THEN "bound" ELSE "TypeError"]
\* AutoTrader._execute_trade: the call cannot bind, the TypeError is caught
\* and logged; nothing is published.
_execute_trade(a, lots) ==
    IF lots <= 0 THEN a
    ELSE [Call(a, "place_order") EXCEPT
            !.place = IF Binds(TraderKeywords) THEN "bound" ELSE "TypeError"]

\* Step 8, lines 290-308.
SizeAndExecute(a, agent) ==
    {LET a1 == Call(Call(a, "account"), "lot_size")
     IN IF account.balance = None
        THEN Finish(a1, "ERROR", "SIZING", agent, FALSE)
        ELSE LET final_lot ==
                    calculate_compounding_lot(
                        base_lot, account.equity[1],
                        Drawdown(account.balance[1], account.equity[1]))
             IN Finish(_execute_trade([a1 EXCEPT !.lots = Some(final_lot)],
                                      final_lot),
                       "APPROVED", "EXECUTION", agent, TRUE)
     : account \in Accounts, base_lot \in BaseLots}

\* Step 7, lines 278-288.
LiquidityCheck(a, agent, world) ==
    UNION {LET a1 == Call(a, "tick")
           IN IF SpreadBlocked(t)
              THEN {Finish(a1, "REJECTED", "LIQUIDITY_CHECK", agent, FALSE)}
              ELSE SizeAndExecute(a1, agent)
           : t \in world.ticks}

\* Step 6, lines 264-276.
NewsCheck(a, agent, s, world) ==
    UNION {LET a1 == Call(a, "news")
           IN IF NewsStop(a.symbol, s, FeedOf(news)).stop
              THEN {Finish(IF s.telegram_enabled /\ s.telegram_chat_id # ""
                           THEN Call(a1, "telegram") ELSE a1,
                           "REJECTED", "NEWS_CHECK", agent, FALSE)}
              ELSE LiquidityCheck(a1, agent, world)
           : news \in world.news}

\* Step 5, lines 244-262.
ProbabilityBlocked(prob, ml_threshold) == prob < ml_threshold
ProbabilityCheck(a, agent, ai_confidence, s, estimator, world) ==
    UNION {LET a1 == Call(a, "estimator")
           IN IF est.raised
              THEN {Finish(a1, "ERROR", "PROBABILITY_CHECK", agent, FALSE)}
              ELSE IF ProbabilityBlocked(Boosted(est.value, ai_confidence),
                                         s.ml_threshold)
                   THEN {Finish(a1, "REJECTED", "PROBABILITY_CHECK", agent,
                                FALSE)}
                   ELSE NewsCheck(a1, agent, s, world)
           : est \in EstimatorOutcomes(estimator)}

\* Step 4, lines 217-242.
AdvisorRejects(ai_confidence, ai_decision_type) ==
    ai_confidence < AdvisorMinConfidence \/ ai_decision_type = "HOLD"
Mutant_AdvisorDisagrees(ai_decision_type, direction) == FALSE
AdvisorDisagrees(ai_decision_type, direction) == ai_decision_type # direction
AdvisorCheck(a, agent, signal, s, estimator, health, reply, world) ==
    LET ai_decision == validate_signal(agent, signal, health, reply)
        ai_confidence == Get(ai_decision.response.confidence, 0)
        ai_decision_type == Get(ai_decision.response.decision, "HOLD")
        a1 == [Call(a, "advisor") EXCEPT
                 !.agent = Some(agent), !.health = health,
                 !.reply = reply, !.ai = Some(ai_decision.response)]
    IN IF AdvisorRejects(ai_confidence, ai_decision_type)
          \/ AdvisorDisagrees(ai_decision_type, signal.direction)
       THEN {Finish(a1, "REJECTED", "ADVISOR_CHECK", ai_decision.agent, FALSE)}
       ELSE ProbabilityCheck(a1, ai_decision.agent, ai_confidence, s, estimator,
                             world)

\* Steps 2 and 3, lines 203-214.
Mutant_ConfidenceBlocked(signal, threshold) == FALSE
ConfidenceBlocked(signal, threshold) == signal.confidence < threshold
RiskRewardBlocked(signal, minimum) ==
    signal.risk_reward < minimum - RiskRewardTolerance

\* The answers a run can meet: the tags endpoint is asked only by a ready
\* agent that lacks the model, the generate endpoint only by a ready agent
\* that holds the model or has just found it.
HealthFor(agent) ==
    IF agent.ollama_ready /\ Model \notin agent.loaded_models
    THEN HealthOutcomes ELSE {NoHealth}
RepliesFor(agent, health) ==
    IF agent.ollama_ready
       /\ (Model \in agent.loaded_models
           \/ (health.kind = "ok" /\ Model \in health.models))
    THEN AdvisorReplies ELSE {NoReply}

\* Lines 179-311: every way the run for symbol can go once the guards of
\* lines 162-177 have let it start, in a world that holds these calendars
\* and ticks.
Pipeline(a0, agent, s, estimator, world) ==
    UNION {
        LET a == [a0 EXCEPT !.candles = Some(candles.count)]
        IN
        IF candles.count = 0 \/ candles.count < MinCandles \/ ~candles.valid
        THEN {Finish(a, "SKIPPED", "DATA", agent, FALSE)}
        ELSE UNION {
            LET generated == generate_signal(candles, scored)
            IN
            IF generated = None
            THEN {Finish(a, "NO_SIGNAL", "READY", agent, FALSE)}
            ELSE LET signal == generated[1]
                     a1 == [a EXCEPT !.signal = generated]
                 IN IF ConfidenceBlocked(signal, a.min_confidence)
                    THEN {Finish(a1, "REJECTED", "CONFIDENCE_CHECK", agent,
                                 FALSE)}
                    ELSE IF RiskRewardBlocked(signal, a.min_risk_reward)
                         THEN {Finish(a1, "REJECTED", "RISK_REWARD_CHECK",
                                      agent, FALSE)}
                         ELSE UNION {
                                UNION {AdvisorCheck(a1, agent, signal, s,
                                                    estimator, health, reply,
                                                    world)
                                       : reply \in RepliesFor(agent, health)}
                                : health \in HealthFor(agent)}
            : scored \in SignalOutcomes}
        : candles \in CandleOutcomes}

\* The whole of _analyze_market(symbol) in the given world.
AnalysisResultsIn(symbol, world) ==
    LET a == [NoAnalysis EXCEPT
                !.symbol = symbol,
                !.connected = rt_connected,
                !.min_confidence = settings.quant_confidence,
                !.min_risk_reward = settings.risk_reward_min]
    IN IF ~rt_connected
       THEN {Finish(a, "HALTED", "READY", Agent, FALSE)}
       ELSE IF HasPosition(positions, symbol)
            THEN {Finish(a, "SKIPPED", "POSITION", Agent, FALSE)}
            ELSE IF now - last_signal_time[symbol] < signal_cooldown
                 THEN {Finish(a, "SKIPPED", "COOLDOWN", Agent, FALSE)}
                 ELSE Pipeline(a, Agent, settings, ml_engine, world)

\* The whole of _analyze_market(symbol).
AnalysisResults(symbol) == AnalysisResultsIn(symbol, AnyWorld)

(***************************************************************************)
(* The auto-trader beside the engine.  The engine is the module singleton  *)
(* (paper mode); the /order route may have opened a position before the    *)
(* trader scans.  The advisor has run its first health check; the          *)
(* estimator is the shipped heuristic or the learned one.                  *)
(***************************************************************************)
PipelineInit ==
    /\ paper_trading = TRUE
    /\ mt5_connected = FALSE
    /\ paper_balance = InitialBalance
    /\ paper_equity = InitialBalance
    /\ price_ops = 0
    /\ \E placed \in BOOLEAN :
         LET order == Order(1, "EURUSD", "BUY", 1, BasePrice, StopOf("BUY"),
                            TargetOf("BUY"))
             done == _execute_paper_order(order, <<>>, <<>>, 1)
         IN /\ order_counter = IF placed THEN 1 ELSE 0
            /\ orders = IF placed THEN <<done.order>> ELSE <<>>
            /\ positions = IF placed THEN done.positions ELSE <<>>
            /\ trade_history = IF placed THEN done.trade_history ELSE <<>>
            /\ last_op = IF placed
                         THEN [NoOp EXCEPT !.op = "place_order",
                                           !.symbol = "EURUSD",
                                           !.order_id = 1,
                                           !.gateway = "paper"]
                         ELSE NoOp
    /\ TraderIdle
    /\ \E health \in HealthOutcomes :
         LET agent == _check_ollama_health(
                          [ollama_ready |-> FALSE, loaded_models |-> {}], health)
         IN /\ ollama_ready = agent.ollama_ready
            /\ loaded_models = agent.loaded_models
    /\ ml_engine \in {"heuristic", "learned"}
    /\ RestIdle

\* One call of AutoTrader._analyze_market from the trading loop.
AnalyzeMarket ==
    \E symbol \in Symbols :
      \E r \in AnalysisResults(symbol) :
        /\ r.analysis.place # "bound"
        /\ min_confidence' = settings.quant_confidence
        /\ min_risk_reward' = settings.risk_reward_min
        /\ analysis' = r.analysis
        /\ ollama_ready' = r.agent.ollama_ready
        /\ loaded_models' = r.agent.loaded_models
        /\ last_signal_time' = IF r.stamped
                               THEN [last_signal_time EXCEPT ![symbol] = now]
                               ELSE last_signal_time
        /\ UNCHANGED <<engine_vars, rt_connected, settings, now, ml_engine,
                       rest_vars>>

\* The terminal connects, or the connection is lost.
SetConnection ==
    /\ rt_connected' = ~rt_connected
    /\ UNCHANGED <<engine_vars, settings, min_confidence, min_risk_reward,
                   last_signal_time, now, ollama_ready, loaded_models,
                   ml_engine, analysis, rest_vars>>

\* POST /settings from the dashboard.
UpdateSettings ==
    /\ \E q \in ConfidenceSettings :
         settings' = [settings EXCEPT !.quant_confidence = q]
    /\ UNCHANGED <<engine_vars, rt_connected, min_confidence, min_risk_reward,
                   last_signal_time, now, ollama_ready, loaded_models,
                   ml_engine, analysis, rest_vars>>

\* AIAgent.start_ollama_service re-checking the advisor's health.
CheckHealth ==
    /\ \E health \in HealthOutcomes :
         LET agent == _check_ollama_health(Agent, health)
         IN /\ ollama_ready' = agent.ollama_ready
            /\ loaded_models' = agent.loaded_models
    /\ UNCHANGED <<engine_vars, rt_connected, settings, min_confidence,
                   min_risk_reward, last_signal_time, now, ml_engine, analysis,
                   rest_vars>>

PipelineNext == AnalyzeMarket \/ SetConnection \/ UpdateSettings \/ CheckHealth

PipelineSpec == PipelineInit /\ [][PipelineNext]_vars

(***************************************************************************)
(* The analysis with the outside world in view: the trader is connected,   *)
(* the advisor holds its model, the estimator returns a probability, and   *)
(* each run is recorded together with the state of the calendar and the    *)
(* tick it met.                                                            *)
(***************************************************************************)
GateInit ==
    /\ paper_trading = TRUE
    /\ mt5_connected = FALSE
    /\ orders = <<>>
    /\ positions = <<>>
    /\ trade_history = <<>>
    /\ order_counter = 0
    /\ paper_balance = InitialBalance
    /\ paper_equity = InitialBalance
    /\ last_op = NoOp
    /\ price_ops = 0
    /\ rt_connected = TRUE
    /\ settings = DefaultSettings
    /\ min_confidence = 40
    /\ min_risk_reward = 150
    /\ last_signal_time = [s \in Symbols |-> 0]
    /\ now = StartTime
    /\ analysis = NoAnalysis
    /\ ollama_ready = TRUE
    /\ loaded_models = {Model}
    /\ ml_engine = "learned"
    /\ QuantIdle
    /\ threads = <<>>
    /\ trader = <<>>
    /\ loop = <<>>
    /\ service = <<>>
    /\ outside = [runs |-> 0, news |-> "clear", tick |-> NoTick]
    /\ fn_call = <<>>
    /\ backtest = <<>>
    /\ auto_trader = <<>>

\* One call of AutoTrader._analyze_market, the calendar being in state news
\* and get_live_price answering tick.
AnalyzeOutside ==
    /\ outside.runs < MaxAnalyses
    /\ \E symbol \in Symbols, news \in NewsOutcomes, tick \in TickOutcomes :
      \E r \in AnalysisResultsIn(symbol, [news |-> {news}, ticks |-> {tick}]) :
        /\ r.analysis.place # "bound"
        /\ min_confidence' = settings.quant_confidence
        /\ min_risk_reward' = settings.risk_reward_min
        /\ analysis' = r.analysis
        /\ ollama_ready' = r.agent.ollama_ready
        /\ loaded_models' = r.agent.loaded_models
        /\ last_signal_time' = IF r.stamped
                               THEN [last_signal_time EXCEPT ![symbol] = now]
                               ELSE last_signal_time
        /\ outside' = [runs |-> outside.runs + 1, news |-> news, tick |-> tick]
        /\ UNCHANGED <<engine_vars, rt_connected, settings, now, ml_engine,
                       quant_vars, threads, trader, loop, service, fn_call,
                       backtest, auto_trader>>

\* POST /settings with a news_buffer, api.py l.389-396.
PostNewsBuffer ==
    /\ \E minutes \in NewsBuffers :
         settings' = [settings EXCEPT !.news_buffer = minutes]
    /\ UNCHANGED <<engine_vars, rt_connected, min_confidence, min_risk_reward,
                   last_signal_time, now, ollama_ready, loaded_models,
                   ml_engine, analysis, rest_vars>>

GateNext == AnalyzeOutside \/ PostNewsBuffer

GateSpec == GateInit /\ [][GateNext]_vars

(***************************************************************************)
(* QuantEngine.generate_signal on its own: one call on given candles.      *)
(***************************************************************************)
SignalInit ==
    /\ paper_trading = TRUE
    /\ mt5_connected = FALSE
    /\ orders = <<>>
    /\ positions = <<>>
    /\ trade_history = <<>>
    /\ order_counter = 0
    /\ paper_balance = InitialBalance
    /\ paper_equity = InitialBalance
    /\ last_op = NoOp
    /\ price_ops = 0
    /\ TraderIdle
    /\ ollama_ready = FALSE
    /\ loaded_models = {}
    /\ ml_engine = "heuristic"
    /\ qe_input \in QuantInputs
    /\ qe_signal = None
    /\ threads = <<>>
    /\ trader = <<>>
    /\ loop = <<>>
    /\ service = <<>>
    /\ BenchIdle

GenerateSignal ==
    /\ qe_signal = None
    /\ qe_signal' = generate_signal([count |-> qe_input.count, valid |-> TRUE],
                                    score_signal(qe_input))
    /\ UNCHANGED <<engine_vars, trader_vars, qe_input, threads, trader, loop,
                   service, bench_vars>>

SignalNext == GenerateSignal

SignalSpec == SignalInit /\ [][SignalNext]_vars


(***************************************************************************)
(* The engine under concurrent callers.  Flask serves /order on one thread *)
(* per request and the scan loop calls update_positions on its own thread; *)
(* the engine takes no lock, so the threads interleave between the reads   *)
(* and writes of _execute_paper_order, update_positions and close_position.*)
(* Each thread's position in its call and its locals are in threads[t].    *)
(* A reference a thread holds to a Position object is detached once        *)
(* another thread deletes or replaces the map entry it came from: writes   *)
(* through it no longer reach the map.                                     *)
(***************************************************************************)
\* The pnl close_position must realize for position pos at the given price.
ClosePnl(pos, price) ==
    IF pos.side = "BUY" THEN (price - pos.entry_price) * pos.quantity
    ELSE (pos.entry_price - price) * pos.quantity
\* Price has reached or crossed the stop or the target of pos.
Crossed(pos, price) ==
    IF pos.side = "BUY" THEN price <= pos.stop_loss \/ price >= pos.take_profit
    ELSE price >= pos.stop_loss \/ price <= pos.take_profit

ApiThreads == {"api1", "api2"}
ScanThread == "scan"
ThreadIds == ApiThreads \cup {ScanThread}

IdleThread ==
    [pc |-> "idle", symbol |-> "", order_id |-> 0, detached |-> FALSE,
     quantity_read |-> 0, idx |-> 0, size |-> 0, prices |-> <<>>,
     total_unrealized |-> 0, closed |-> 0, raised |-> ""]

\* Every other thread that holds a reference to the Position of symbol loses
\* the map entry behind it.
Detach(ts, self, symbol) ==
    [t \in ThreadIds |->
        IF t # self /\ ts[t].symbol = symbol
           /\ ts[t].pc \in {"merge_set", "close_del"}
        THEN [ts[t] EXCEPT !.detached = TRUE]
        ELSE ts[t]]

ConcInit ==
    /\ paper_trading = TRUE
    /\ mt5_connected = FALSE
    /\ orders = <<>>
    /\ positions = <<>>
    /\ trade_history = <<>>
    /\ order_counter = 0
    /\ paper_balance = InitialBalance
    /\ paper_equity = InitialBalance
    /\ last_op = NoOp
    /\ price_ops = 0
    /\ TraderIdle
    /\ ollama_ready = FALSE
    /\ loaded_models = {}
    /\ ml_engine = "heuristic"
    /\ QuantIdle
    /\ threads = [t \in ThreadIds |-> IdleThread]
    /\ trader = <<>>
    /\ loop = <<>>
    /\ service = <<>>
    /\ BenchIdle

\* place_order l.146-160 and _execute_paper_order l.171-177: the order is
\* created, stored and marked FILLED before the position map is looked at.
ApiPlace(t) ==
    /\ threads[t].pc = "idle"
    /\ \E symbol \in Symbols, side \in Sides :
         LET order_id == order_counter + 1
             order == Order(order_id, symbol, side, 1, BasePrice, StopOf(side),
                            TargetOf(side))
             fill_price == order.price + order.price \div SlippageDiv
             filled == [SetStatus(order, "FILLED") EXCEPT
                          !.filled_price = Some(fill_price),
                          !.filled_quantity = order.quantity]
         IN /\ order_counter' = order_id
            /\ orders' = Append(orders, filled)
            /\ threads' = [threads EXCEPT ![t].pc = "check",
                                          ![t].symbol = symbol,
                                          ![t].order_id = order_id]
    /\ UNCHANGED <<bench_vars, service, paper_trading, mt5_connected, positions, trade_history,
                   paper_balance, paper_equity, last_op, price_ops,
                   trader_vars, quant_vars, trader, loop>>

\* l.180: if order.symbol in self.positions
ApiCheck(t) ==
    /\ threads[t].pc = "check"
    /\ threads' = [threads EXCEPT
                     ![t].pc = IF HasPosition(positions, threads[t].symbol)
                               THEN "merge_get" ELSE "create"]
    /\ UNCHANGED <<bench_vars, service, engine_vars, trader_vars, quant_vars, trader, loop>>

\* l.182 and the read of l.183: pos = self.positions[symbol] raises KeyError
\* if the entry is gone; otherwise pos.quantity is loaded.
ApiMergeGet(t) ==
    /\ threads[t].pc = "merge_get"
    /\ threads' =
         IF HasPosition(positions, threads[t].symbol)
         THEN [threads EXCEPT
                 ![t].pc = "merge_set",
                 ![t].detached = FALSE,
                 ![t].quantity_read =
                     PositionOf(positions, threads[t].symbol).quantity]
         ELSE [threads EXCEPT ![t].pc = "done", ![t].raised = "KeyError"]
    /\ UNCHANGED <<bench_vars, service, engine_vars, trader_vars, quant_vars, trader, loop>>

\* The store of l.183 and l.184, through the reference taken at l.182.
ApiMergeSet(t) ==
    /\ threads[t].pc = "merge_set"
    /\ LET order == orders[threads[t].order_id]
       IN positions' =
            IF threads[t].detached THEN positions
            ELSE LET i == PosIndex(positions, threads[t].symbol)
                 IN [positions EXCEPT
                       ![i].quantity = threads[t].quantity_read + order.quantity,
                       ![i].entry_price = (@ + order.filled_price[1]) \div 2]
    /\ threads' = [threads EXCEPT ![t].pc = "append"]
    /\ UNCHANGED <<bench_vars, service, paper_trading, mt5_connected, orders, trade_history,
                   order_counter, paper_balance, paper_equity, last_op,
                   price_ops, trader_vars, quant_vars, trader, loop>>

\* l.187-198: self.positions[symbol] = Position(...), whatever is there.
ApiCreate(t) ==
    /\ threads[t].pc = "create"
    /\ LET order == orders[threads[t].order_id]
           pos == [symbol |-> order.symbol, side |-> order.side,
                   quantity |-> order.quantity,
                   entry_price |-> order.filled_price[1],
                   current_price |-> order.filled_price[1],
                   stop_loss |-> order.stop_loss,
                   take_profit |-> order.take_profit,
                   unrealized_pnl |-> 0, realized_pnl |-> 0]
       IN /\ positions' =
               IF HasPosition(positions, order.symbol)
               THEN [positions EXCEPT ![PosIndex(positions, order.symbol)] = pos]
               ELSE Append(positions, pos)
          /\ threads' = [Detach(threads, t, order.symbol) EXCEPT
                           ![t].pc = "append"]
    /\ UNCHANGED <<bench_vars, service, paper_trading, mt5_connected, orders, trade_history,
                   order_counter, paper_balance, paper_equity, last_op,
                   price_ops, trader_vars, quant_vars, trader, loop>>

\* l.200: self.trade_history.append(order)
ApiAppend(t) ==
    /\ threads[t].pc = "append"
    /\ trade_history' = Append(trade_history, threads[t].order_id)
    /\ threads' = [threads EXCEPT ![t].pc = "done"]
    /\ UNCHANGED <<bench_vars, service, paper_trading, mt5_connected, orders, positions,
                   order_counter, paper_balance, paper_equity, last_op,
                   price_ops, trader_vars, quant_vars, trader, loop>>

\* AutoTrader._update_positions, then update_positions l.269-271: the
\* iteration over self.positions.items() starts.
ScanStart ==
    /\ threads[ScanThread].pc = "idle"
    /\ \E have \in SUBSET {positions[i].symbol : i \in 1..Len(positions)} :
         \E prices \in [have -> TickPrices] :
            threads' = [threads EXCEPT ![ScanThread].pc = "iter",
                                       ![ScanThread].prices = prices,
                                       ![ScanThread].idx = 1,
                                       ![ScanThread].size = Len(positions)]
    /\ UNCHANGED <<bench_vars, service, engine_vars, trader_vars, quant_vars, trader, loop>>

\* One turn of the for loop, l.271-288, up to the call of close_position.
\* The dict iterator raises RuntimeError once the dict has changed size.
ScanIter ==
    /\ threads[ScanThread].pc = "iter"
    /\ LET me == threads[ScanThread]
       IN IF Len(positions) # me.size
          THEN /\ threads' = [threads EXCEPT ![ScanThread].pc = "done",
                                             ![ScanThread].raised = "RuntimeError"]
               /\ UNCHANGED positions
          ELSE IF me.idx > Len(positions)
          THEN /\ threads' = [threads EXCEPT ![ScanThread].pc = "finish"]
               /\ UNCHANGED positions
          ELSE LET pos == positions[me.idx]
               IN IF pos.symbol \notin DOMAIN me.prices
                  THEN /\ threads' = [threads EXCEPT ![ScanThread].idx = @ + 1]
                       /\ UNCHANGED positions
                  ELSE LET price == me.prices[pos.symbol]
                           pnl == ClosePnl(pos, price)
                       IN /\ positions' = [positions EXCEPT
                                             ![me.idx].current_price = price,
                                             ![me.idx].unrealized_pnl = pnl]
                          /\ threads' =
                               [threads EXCEPT
                                  ![ScanThread].total_unrealized = @ + pnl,
                                  ![ScanThread].symbol = pos.symbol,
                                  ![ScanThread].pc =
                                      IF Crossed(pos, price)
                                      THEN "close_get" ELSE "iter",
                                  ![ScanThread].idx =
                                      IF Crossed(pos, price) THEN @ ELSE @ + 1]
    /\ UNCHANGED <<bench_vars, service, paper_trading, mt5_connected, orders, trade_history,
                   order_counter, paper_balance, paper_equity, last_op,
                   price_ops, trader_vars, quant_vars, trader, loop>>

\* close_position l.245-258: the position is looked up, its pnl computed and
\* added to the balance.
ScanCloseGet ==
    /\ threads[ScanThread].pc = "close_get"
    /\ LET me == threads[ScanThread]
       IN IF ~HasPosition(positions, me.symbol)
          THEN /\ threads' = [threads EXCEPT ![ScanThread].pc = "iter",
                                             ![ScanThread].idx = @ + 1]
               /\ UNCHANGED <<bench_vars, service, paper_balance, paper_equity>>
          ELSE LET pos == PositionOf(positions, me.symbol)
                   pnl == ClosePnl(pos, me.prices[me.symbol])
               IN /\ paper_balance' = paper_balance + pnl
                  /\ paper_equity' = paper_balance + pnl
                  /\ threads' = [threads EXCEPT ![ScanThread].pc = "close_del",
                                                ![ScanThread].detached = FALSE]
    /\ UNCHANGED <<bench_vars, service, paper_trading, mt5_connected, orders, positions,
                   trade_history, order_counter, last_op, price_ops,
                   trader_vars, quant_vars, trader, loop>>

\* close_position l.261: del self.positions[symbol] removes whatever
\* Position the map holds for the symbol by now.
ScanCloseDel ==
    /\ threads[ScanThread].pc = "close_del"
    /\ LET me == threads[ScanThread]
       IN IF ~HasPosition(positions, me.symbol)
          THEN /\ threads' = [threads EXCEPT ![ScanThread].pc = "done",
                                             ![ScanThread].raised = "KeyError"]
               /\ UNCHANGED positions
          ELSE /\ positions' = RemoveAt(positions,
                                        PosIndex(positions, me.symbol))
               /\ threads' = [Detach(threads, ScanThread, me.symbol) EXCEPT
                                ![ScanThread].pc = "iter",
                                ![ScanThread].closed = @ + 1]
    /\ UNCHANGED <<bench_vars, service, paper_trading, mt5_connected, orders, trade_history,
                   order_counter, paper_balance, paper_equity, last_op,
                   price_ops, trader_vars, quant_vars, trader, loop>>

\* update_positions l.290
ScanFinish ==
    /\ threads[ScanThread].pc = "finish"
    /\ paper_equity' = paper_balance + threads[ScanThread].total_unrealized
    /\ threads' = [threads EXCEPT ![ScanThread].pc = "done"]
    /\ UNCHANGED <<bench_vars, service, paper_trading, mt5_connected, orders, positions,
                   trade_history, order_counter, paper_balance, last_op,
                   price_ops, trader_vars, quant_vars, trader, loop>>

ApiStep(t) ==
    \/ ApiPlace(t)
    \/ ApiCheck(t)
    \/ ApiMergeGet(t)
    \/ ApiMergeSet(t)
    \/ ApiCreate(t)
    \/ ApiAppend(t)

ScanStep == ScanStart \/ ScanIter \/ ScanCloseGet \/ ScanCloseDel \/ ScanFinish

ConcNext == (\E t \in ApiThreads : ApiStep(t)) \/ ScanStep

ConcSpec == ConcInit /\ [][ConcNext]_vars

(***************************************************************************)
(* The two periodic loops around _analyze_market: AutoTrader._trading_loop *)
(* on the scan thread and RealTimeDataService._stream_loop, which hands    *)
(* every tick to AutoTrader.on_tick, on the stream thread.  An analysis is *)
(* two steps: the code before the try of line 179, then the pipeline.  In  *)
(* this specification now and last_signal_time count half seconds, the     *)
(* stream loop's sleep.                                                    *)
(***************************************************************************)
ScanSymbols == <<"EURUSD", "GBPUSD">>
TicksPerSecond == 2
scan_interval == 10

IdleLoop ==
    [pc |-> "none", i |-> 0, cycles |-> 0, symbol |-> "", analysed |-> {},
     refreshed |-> FALSE, broke |-> FALSE, raised |-> "",
     started |-> [s \in Symbols |-> 0]]

\* The symbols the dashboard has subscribed to.
Subscribed == {"EURUSD"}

\* AutoTrader.stop on the trader's flags; join() changes nothing.
stop(t) == [t EXCEPT !.running = FALSE, !.stop_event = TRUE]

\* A loop test that does not look at the stop signal.
Mutant_loop_ignores_stop(stop_event) == TRUE
\* while not self.stop_event.is_set()
loop_continues(stop_event) == ~stop_event

\* _analyze_market l.154-177 for thread t: "TypeError" when the posted
\* quant_confidence cannot be divided, "return" at a guard, "try" otherwise.
BeforeTry(symbol) ==
    IF ~trader.numeric THEN "TypeError"
    ELSE IF ~rt_connected THEN "return"
    ELSE IF HasPosition(positions, symbol) THEN "return"
    ELSE IF now - last_signal_time[symbol] < signal_cooldown * TicksPerSecond
         THEN "return"
    ELSE "try"

LoopInit ==
    /\ paper_trading = TRUE
    /\ mt5_connected = FALSE
    /\ orders = <<>>
    /\ positions = <<>>
    /\ trade_history = <<>>
    /\ order_counter = 0
    /\ paper_balance = InitialBalance
    /\ paper_equity = InitialBalance
    /\ last_op = NoOp
    /\ price_ops = 0
    /\ rt_connected = TRUE
    /\ settings = DefaultSettings
    /\ min_confidence = 40
    /\ min_risk_reward = 150
    /\ last_signal_time = [s \in Symbols |-> 0]
    /\ now = StartTime
    /\ analysis = NoAnalysis
    /\ ollama_ready = TRUE
    /\ loaded_models = {Model}
    /\ ml_engine \in {"heuristic", "learned"}
    /\ QuantIdle
    /\ threads = <<>>
    /\ trader = [running |-> FALSE, stop_event |-> FALSE, numeric |-> TRUE]
    /\ loop = [scan |-> IdleLoop,
               stream |-> [IdleLoop EXCEPT !.pc = "top"]]
    /\ service = <<>>
    /\ BenchIdle

\* AutoTrader.start, taken up once the previous loop thread has ended;
\* EngageSpec follows start() while an earlier thread is still alive.
Start ==
    /\ ~trader.running
    /\ rt_connected
    /\ ollama_ready
    /\ Model \in loaded_models
    /\ loop.scan.pc \in {"none", "exited"}
    /\ trader' = [trader EXCEPT !.running = TRUE, !.stop_event = FALSE]
    /\ loop' = [loop EXCEPT !.scan = [IdleLoop EXCEPT
                                         !.pc = "top",
                                         !.cycles = loop.scan.cycles]]
    /\ UNCHANGED <<bench_vars, service, engine_vars, trader_vars, quant_vars, threads>>

\* AutoTrader.stop
Stop ==
    /\ trader' = stop(trader)
    /\ UNCHANGED <<bench_vars, service, engine_vars, trader_vars, quant_vars, threads, loop>>

\* POST /settings stores whatever quant_confidence was posted.
PostSettings ==
    /\ trader' = [trader EXCEPT !.numeric = ~@]
    /\ UNCHANGED <<bench_vars, service, engine_vars, trader_vars, quant_vars, threads, loop>>

\* The test of the while loop, l.322.
ScanTop ==
    /\ loop.scan.pc = "top"
    /\ IF loop_continues(trader.stop_event)
       THEN /\ loop.scan.cycles < MaxScanCycles
            /\ loop' = [loop EXCEPT !.scan.pc = "symbols",
                                    !.scan.i = 1,
                                    !.scan.cycles = @ + 1,
                                    !.scan.analysed = {},
                                    !.scan.refreshed = FALSE,
                                    !.scan.broke = FALSE,
                                    !.scan.raised = ""]
       ELSE loop' = [loop EXCEPT !.scan.pc = "exited"]
    /\ UNCHANGED <<bench_vars, service, engine_vars, trader_vars, quant_vars, threads, trader>>

\* One turn of the for loop of l.329-333, up to the try of _analyze_market.
\* What _analyze_market raises before its try reaches the except of l.340.
ScanSymbol ==
    /\ loop.scan.pc = "symbols"
    /\ LET me == loop.scan
           symbol == ScanSymbols[me.i]
       IN IF me.i > Len(ScanSymbols)
          THEN /\ loop' = [loop EXCEPT !.scan.pc = "refresh"]
               /\ UNCHANGED <<bench_vars, service, min_confidence, min_risk_reward>>
          ELSE IF ~trader.running
          THEN /\ loop' = [loop EXCEPT !.scan.pc = "refresh",
                                       !.scan.broke = TRUE]
               /\ UNCHANGED <<bench_vars, service, min_confidence, min_risk_reward>>
          ELSE IF BeforeTry(symbol) = "TypeError"
          THEN /\ loop' = [loop EXCEPT !.scan.pc = "sleep",
                                       !.scan.raised = "TypeError"]
               /\ UNCHANGED <<bench_vars, service, min_confidence, min_risk_reward>>
          ELSE /\ min_confidence' = settings.quant_confidence
               /\ min_risk_reward' = settings.risk_reward_min
               /\ loop' = IF BeforeTry(symbol) = "try"
                          THEN [loop EXCEPT !.scan.pc = "pipeline",
                                            !.scan.symbol = symbol]
                          ELSE [loop EXCEPT !.scan.i = @ + 1,
                                            !.scan.analysed = @ \cup {symbol}]
    /\ UNCHANGED <<bench_vars, service, engine_vars, rt_connected, settings, last_signal_time, now,
                   ollama_ready, loaded_models, ml_engine, analysis,
                   quant_vars, threads, trader>>

\* The try of _analyze_market, l.179-311, on thread t: whatever is raised
\* in it is caught; line 308 stamps last_signal_time after _execute_trade.
\* Of the run only the stamp and the advisor's state outlive it here.
Analyze(t) ==
    /\ loop[t].pc = "pipeline"
    /\ LET symbol == loop[t].symbol
           a == [NoAnalysis EXCEPT
                   !.symbol = symbol,
                   !.connected = rt_connected,
                   !.min_confidence = min_confidence,
                   !.min_risk_reward = min_risk_reward]
       IN \E r \in Pipeline(a, Agent, settings, ml_engine, AnyWorld) :
            /\ ollama_ready' = r.agent.ollama_ready
            /\ loaded_models' = r.agent.loaded_models
            /\ last_signal_time' =
                 IF r.stamped THEN [last_signal_time EXCEPT ![symbol] = now]
                 ELSE last_signal_time
            /\ loop' = [loop EXCEPT ![t].pc = "symbols",
                                    ![t].i = @ + 1,
                                    ![t].analysed = @ \cup {symbol}]
    /\ UNCHANGED <<bench_vars, service, engine_vars, rt_connected, settings, min_confidence,
                   min_risk_reward, now, ml_engine, analysis, quant_vars,
                   threads, trader>>

\* _update_positions at the end of the cycle, l.336; a RuntimeError of
\* update_positions is caught at l.340.
ScanRefresh ==
    /\ loop.scan.pc = "refresh"
    /\ \E have \in SUBSET {positions[i].symbol : i \in 1..Len(positions)} :
         \E prices \in [have -> TickPrices] :
           LET done == update_positions(Engine, prices)
           IN /\ positions' = done.e.positions
              /\ paper_balance' = done.e.paper_balance
              /\ paper_equity' = done.e.paper_equity
              /\ loop' = [loop EXCEPT
                            !.scan.pc = "sleep",
                            !.scan.refreshed = TRUE,
                            !.scan.raised = IF done.raised THEN "RuntimeError"
                                            ELSE ""]
    /\ UNCHANGED <<bench_vars, service, paper_trading, mt5_connected, orders, trade_history,
                   order_counter, last_op, price_ops, trader_vars, quant_vars,
                   threads, trader>>

\* time.sleep(self.scan_interval), l.346
ScanSleep ==
    /\ loop.scan.pc = "sleep"
    /\ now' = now + scan_interval * TicksPerSecond
    /\ loop' = [loop EXCEPT !.scan.pc = "top"]
    /\ UNCHANGED <<bench_vars, service, engine_vars, rt_connected, settings, min_confidence,
                   min_risk_reward, last_signal_time, ollama_ready,
                   loaded_models, ml_engine, analysis, quant_vars, threads,
                   trader>>

\* The test of _stream_loop's while loop; stop_streaming is not called here.
StreamTop ==
    /\ loop.stream.pc = "top"
    /\ loop.stream.cycles < MaxStreamCycles
    /\ loop' = [loop EXCEPT !.stream.pc = "symbols",
                            !.stream.i = 1,
                            !.stream.cycles = @ + 1]
    /\ UNCHANGED <<bench_vars, service, engine_vars, trader_vars, quant_vars, threads, trader>>

\* One turn of _stream_loop's for loop for a subscribed symbol: the tick is
\* fetched (None while disconnected) and handed to on_tick outside any try,
\* so what on_tick raises ends the stream thread.
StreamSymbol ==
    /\ loop.stream.pc = "symbols"
    /\ LET me == loop.stream
           symbol == ScanSymbols[me.i]
           throttled == now - last_signal_time[symbol] < 1 * TicksPerSecond
       IN IF me.i > Len(ScanSymbols)
          THEN /\ loop' = [loop EXCEPT !.stream.pc = "sleep"]
               /\ UNCHANGED <<bench_vars, service, min_confidence, min_risk_reward>>
          ELSE IF symbol \notin Subscribed \/ ~trader.running
          THEN /\ loop' = [loop EXCEPT !.stream.i = @ + 1]
               /\ UNCHANGED <<bench_vars, service, min_confidence, min_risk_reward>>
          ELSE IF ~rt_connected
          THEN /\ loop' = [loop EXCEPT !.stream.pc = "crashed",
                                       !.stream.raised = "AttributeError"]
               /\ UNCHANGED <<bench_vars, service, min_confidence, min_risk_reward>>
          ELSE IF throttled
          THEN /\ loop' = [loop EXCEPT !.stream.i = @ + 1]
               /\ UNCHANGED <<bench_vars, service, min_confidence, min_risk_reward>>
          ELSE IF BeforeTry(symbol) = "TypeError"
          THEN /\ loop' = [loop EXCEPT !.stream.pc = "crashed",
                                       !.stream.raised = "TypeError",
                                       !.stream.started[symbol] = now]
               /\ UNCHANGED <<bench_vars, service, min_confidence, min_risk_reward>>
          ELSE /\ min_confidence' = settings.quant_confidence
               /\ min_risk_reward' = settings.risk_reward_min
               /\ loop' = IF BeforeTry(symbol) = "try"
                          THEN [loop EXCEPT !.stream.pc = "pipeline",
                                            !.stream.symbol = symbol,
                                            !.stream.started[symbol] = now]
                          ELSE [loop EXCEPT !.stream.i = @ + 1,
                                            !.stream.analysed = @ \cup {symbol},
                                            !.stream.started[symbol] = now]
    /\ UNCHANGED <<bench_vars, service, engine_vars, rt_connected, settings, last_signal_time, now,
                   ollama_ready, loaded_models, ml_engine, analysis,
                   quant_vars, threads, trader>>

\* time.sleep(0.5), realtime_data.py l.412
StreamSleep ==
    /\ loop.stream.pc = "sleep"
    /\ now' = now + 1
    /\ loop' = [loop EXCEPT !.stream.pc = "top"]
    /\ UNCHANGED <<bench_vars, service, engine_vars, rt_connected, settings, min_confidence,
                   min_risk_reward, last_signal_time, ollama_ready,
                   loaded_models, ml_engine, analysis, quant_vars, threads,
                   trader>>

TradingLoopStep == ScanTop \/ ScanSymbol \/ Analyze("scan") \/ ScanRefresh \/ ScanSleep

StreamLoopStep == StreamTop \/ StreamSymbol \/ Analyze("stream") \/ StreamSleep

LoopNext ==
    \/ Start
    \/ Stop
    \/ PostSettings
    \/ SetConnection
    \/ TradingLoopStep
    \/ StreamLoopStep

LoopSpec == LoopInit /\ [][LoopNext]_vars

\* Python runs every live thread again and again; each step of the scan
\* thread returns (the HTTP calls have timeouts, the sleep is finite).  The
\* estimator is the shipped one.
LoopLiveInit == LoopInit /\ ml_engine = "heuristic"

LoopLiveSpec == LoopLiveInit /\ [][LoopNext]_vars /\ WF_vars(TradingLoopStep)

(***************************************************************************)
(* RealTimeDataService: the reconnect monitor started by __init__ and the  *)
(* stream thread of start_streaming.  Both loops test the one stop_event   *)
(* of the service.  Here now counts seconds.                               *)
(***************************************************************************)
reconnect_interval == 10
DataModes == {"LIVE_MT5", "LIVE_BRIDGE", "DISCONNECTED"}

MonitorInit ==
    /\ paper_trading = TRUE
    /\ mt5_connected = FALSE
    /\ orders = <<>>
    /\ positions = <<>>
    /\ trade_history = <<>>
    /\ order_counter = 0
    /\ paper_balance = InitialBalance
    /\ paper_equity = InitialBalance
    /\ last_op = NoOp
    /\ price_ops = 0
    /\ settings = DefaultSettings
    /\ min_confidence = 40
    /\ min_risk_reward = 150
    /\ last_signal_time = [s \in Symbols |-> 0]
    /\ now = StartTime
    /\ analysis = NoAnalysis
    /\ ollama_ready = FALSE
    /\ loaded_models = {}
    /\ ml_engine = "heuristic"
    /\ QuantIdle
    /\ threads = <<>>
    /\ trader = <<>>
    /\ loop = <<>>
    /\ BenchIdle
    /\ \E mode \in DataModes :
         /\ rt_connected = (mode = "LIVE_MT5")
         /\ service = [running |-> FALSE, stop_event |-> FALSE,
                    data_mode |-> mode, last_reconnect_attempt |-> 0,
                    stream |-> "none", monitor |-> "top", checks |-> 0,
                    attempted |-> FALSE]

\* start_streaming, l.376-385
StartStreaming ==
    /\ ~service.running
    /\ service.stream # "alive"
    /\ service' = [service EXCEPT !.running = TRUE,
                                  !.stop_event = FALSE,
                                  !.stream = "alive"]
    /\ UNCHANGED <<bench_vars, engine_vars, trader_vars, quant_vars, threads, trader, loop>>

\* stop_streaming, l.387-393
StopStreaming ==
    /\ service' = [service EXCEPT !.running = FALSE, !.stop_event = TRUE]
    /\ UNCHANGED <<bench_vars, engine_vars, trader_vars, quant_vars, threads, trader, loop>>

\* The test of _stream_loop's while loop.
StreamLoop ==
    /\ service.stream = "alive"
    /\ service.stop_event
    /\ service' = [service EXCEPT !.stream = "exited"]
    /\ UNCHANGED <<bench_vars, engine_vars, trader_vars, quant_vars, threads, trader, loop>>

\* The test of monitor_loop's while loop, l.137.
MonitorTop ==
    /\ service.monitor = "top"
    /\ service' = [service EXCEPT
                     !.monitor = IF service.stop_event THEN "exited" ELSE "body",
                     !.attempted = FALSE]
    /\ UNCHANGED <<bench_vars, engine_vars, trader_vars, quant_vars, threads, trader, loop>>

\* The body of monitor_loop, l.138-157: sleep 5 s, then a reconnection
\* attempt if disconnected and the last one is 10 s old, or a health check
\* of the terminal if connected to it.
MonitorBody ==
    /\ service.monitor = "body"
    /\ service.checks < MaxChecks
    /\ now' = now + 5
    /\ \E reached \in DataModes, alive \in BOOLEAN :
         /\ service' =
           IF service.data_mode = "DISCONNECTED"
           THEN IF now' - service.last_reconnect_attempt >= reconnect_interval
                THEN [service EXCEPT !.monitor = "top",
                                     !.checks = @ + 1,
                                     !.last_reconnect_attempt = now',
                                     !.attempted = TRUE,
                                     !.data_mode = reached]
                ELSE [service EXCEPT !.monitor = "top", !.checks = @ + 1]
           ELSE IF service.data_mode = "LIVE_MT5" /\ ~alive
                THEN [service EXCEPT !.monitor = "top",
                                     !.checks = @ + 1,
                                     !.data_mode = "DISCONNECTED"]
                ELSE [service EXCEPT !.monitor = "top", !.checks = @ + 1]
         /\ rt_connected' = (service'.data_mode = "LIVE_MT5")
    /\ UNCHANGED <<bench_vars, engine_vars, settings, min_confidence,
                   min_risk_reward, last_signal_time, ollama_ready,
                   loaded_models, ml_engine, analysis, quant_vars, threads,
                   trader, loop>>

MonitorNext ==
    \/ StartStreaming
    \/ StopStreaming
    \/ StreamLoop
    \/ MonitorTop
    \/ MonitorBody

MonitorSpec == MonitorInit /\ [][MonitorNext]_vars

(***************************************************************************)
(* The services' functions called on their own: the news check as the      *)
(* /news/check route calls it, the position sizer, the backtest's           *)
(* statistics.  Nothing else is running.                                   *)
(***************************************************************************)
BenchInit ==
    /\ paper_trading = TRUE
    /\ mt5_connected = FALSE
    /\ orders = <<>>
    /\ positions = <<>>
    /\ trade_history = <<>>
    /\ order_counter = 0
    /\ paper_balance = InitialBalance
    /\ paper_equity = InitialBalance
    /\ last_op = NoOp
    /\ price_ops = 0
    /\ TraderIdle
    /\ ollama_ready = FALSE
    /\ loaded_models = {}
    /\ ml_engine = "heuristic"
    /\ RestIdle

\* GET /news/check/<symbol>?buffer=..., api.py l.432-438.
NewsSymbols == {"EURUSD", "EURGBP"}
CallCheckNewsStop ==
    /\ \E feed \in Feeds, symbol \in NewsSymbols, buffer \in NewsBuffers :
         fn_call' = [fn |-> "check_news_stop",
                     args |-> [feed |-> feed, symbol |-> symbol,
                               buffer |-> buffer],
                     result |-> check_news_stop(feed, symbol, buffer)]
    /\ UNCHANGED <<engine_vars, trader_vars, quant_vars, threads, trader, loop,
                   service, outside, backtest, auto_trader>>

\* Step 8 of an analysis up to the final lot.
CallPositionSize ==
    /\ \E account \in Accounts, symbol_info \in Instruments,
          distance \in StopDistances :
         fn_call' = [fn |-> "position_size",
                     args |-> [account |-> account,
                               symbol_info |-> symbol_info,
                               distance |-> distance],
                     result |-> position_size(account, symbol_info, distance)]
    /\ UNCHANGED <<engine_vars, trader_vars, quant_vars, threads, trader, loop,
                   service, outside, backtest, auto_trader>>


(***************************************************************************)
(* BacktestEngine.  Prices are integers; a run is followed bar by bar: the *)
(* data frame is whatever bars the iterations meet, the strategy function  *)
(* whatever it answers on them.                                            *)
(***************************************************************************)
\* BacktestEngine.initial_capital and run_backtest's risk_per_trade in
\* percent.
initial_capital == 10000
BacktestRisk == 2
\* A row of the data frame.
BacktestBars == [low : {95, 99}, high : {101, 105}, close : {99, 101}]
\* What strategy_func returns: None or (direction, entry, sl, tp).
StrategyOutcomes ==
    {None,
     Some([direction |-> "BUY", entry |-> 100, sl |-> 98, tp |-> 104]),
     Some([direction |-> "SELL", entry |-> 100, sl |-> 102, tp |-> 96]),
     Some([direction |-> "BUY", entry |-> 100, sl |-> 100, tp |-> 104])}
\* BacktestEngine.reset, with where run_backtest stands: the iterations
\* done, the close of the last bar, and what the last iteration met (its
\* bar, the strategy's answer) and did.
ResetEngine ==
    [pc |-> "loop", i |-> 0, last_close |-> 0, capital |-> initial_capital,
     trades |-> <<>>, equity_curve |-> <<initial_capital>>,
     current_position |-> None, started_open |-> FALSE,
     queried |-> FALSE, exit_checked |-> FALSE, raised |-> FALSE,
     bar |-> None, signal |-> None, results |-> None]

\* An _open_trade that opens a trade of size 0 when entry and stop coincide.
Mutant__open_trade_at_zero_distance(b, signal) ==
    LET risk_amount == (b.capital * BacktestRisk) \div 100
        risk_per_unit == Abs(signal.entry - signal.sl)
    IN [b EXCEPT !.current_position =
           Some([direction |-> IF signal.direction = "BUY"
                               THEN "LONG" ELSE "SHORT",
                 entry_price |-> signal.entry,
                 exit_price |-> None,
                 size |-> IF risk_per_unit = 0 THEN 0
                          ELSE risk_amount \div risk_per_unit,
                 stop_loss |-> signal.sl,
                 take_profit |-> signal.tp,
                 pnl |-> 0, status |-> "OPEN",
                 opened |-> b.i + 1, closed |-> 0])]
\* BacktestEngine._open_trade on the bar of iteration i.
_open_trade(b, signal) ==
    LET risk_amount == (b.capital * BacktestRisk) \div 100
        risk_per_unit == Abs(signal.entry - signal.sl)
    IN IF risk_per_unit = 0 THEN b
       ELSE [b EXCEPT !.current_position =
                Some([direction |-> IF signal.direction = "BUY"
                                    THEN "LONG" ELSE "SHORT",
                      entry_price |-> signal.entry,
                      exit_price |-> None,
                      size |-> risk_amount \div risk_per_unit,
                      stop_loss |-> signal.sl,
                      take_profit |-> signal.tp,
                      pnl |-> 0, status |-> "OPEN",
                      opened |-> b.i + 1, closed |-> 0])]

\* A _close_position that books no profit or loss on the capital.
Mutant__close_position_keeps_capital(b, bar) ==
    IF b.current_position = None THEN b
    ELSE IF bar # None THEN [b EXCEPT !.raised = TRUE]
    ELSE LET pos == b.current_position[1]
             pnl == IF pos.direction = "LONG"
                    THEN (pos.exit_price[1] - pos.entry_price) * pos.size
                    ELSE (pos.entry_price - pos.exit_price[1]) * pos.size
         IN [b EXCEPT !.trades = Append(@, [pos EXCEPT !.pnl = pnl,
                                                       !.status = "CLOSED",
                                                       !.closed = b.i]),
                      !.current_position = None]
\* BacktestEngine._close_position.  `if bar:` asks a pandas Series for its
\* truth value, which raises ValueError: with a bar the call ends there.
_close_position(b, bar) ==
    IF b.current_position = None THEN b
    ELSE IF bar # None THEN [b EXCEPT !.raised = TRUE]
    ELSE LET pos == b.current_position[1]
             pnl == IF pos.direction = "LONG"
                    THEN (pos.exit_price[1] - pos.entry_price) * pos.size
                    ELSE (pos.entry_price - pos.exit_price[1]) * pos.size
         IN [b EXCEPT !.capital = @ + pnl,
                      !.trades = Append(@, [pos EXCEPT !.pnl = pnl,
                                                       !.status = "CLOSED",
                                                       !.closed = b.i]),
                      !.current_position = None]

\* BacktestEngine._check_exit
_check_exit(b, bar) ==
    IF b.current_position = None THEN b
    ELSE LET pos == b.current_position[1]
             exit_at(price) ==
                _close_position(
                    [b EXCEPT !.current_position[1].exit_price = Some(price)],
                    Some(bar))
         IN IF pos.direction = "LONG"
            THEN IF bar.low <= pos.stop_loss THEN exit_at(pos.stop_loss)
                 ELSE IF bar.high >= pos.take_profit
                      THEN exit_at(pos.take_profit)
                      ELSE b
            ELSE IF bar.high >= pos.stop_loss THEN exit_at(pos.stop_loss)
                 ELSE IF bar.low <= pos.take_profit
                      THEN exit_at(pos.take_profit)
                      ELSE b

\* BacktestEngine._calculate_unrealized_pnl
_calculate_unrealized_pnl(b, current_price) ==
    IF b.current_position = None THEN 0
    ELSE LET pos == b.current_position[1]
         IN IF pos.direction = "LONG"
            THEN (current_price - pos.entry_price) * pos.size
            ELSE (pos.entry_price - current_price) * pos.size

\* The end of an iteration, l.108-113: the equity at the bar's close joins
\* the curve.
update_equity_curve(b, bar) ==
    [b EXCEPT !.equity_curve =
                 Append(@, b.capital + _calculate_unrealized_pnl(b, bar.close))]

RECURSIVE Sum(_)
\* sum(pnls)
Sum(pnls) == IF pnls = <<>> THEN 0 ELSE Head(pnls) + Sum(Tail(pnls))

\* BacktestEngine._calculate_results: the counts, total_pnl, and the profit
\* factor as the fraction num / den.
_calculate_results(pnls) ==
    IF pnls = <<>>
    THEN [total_trades |-> 0, winning_trades |-> 0, losing_trades |-> 0,
          total_pnl |-> 0, profit_factor |-> [num |-> 0, den |-> 1]]
    ELSE LET wins == SelectSeq(pnls, LAMBDA p : p > 0)
             losses == SelectSeq(pnls, LAMBDA p : p < 0)
             gross_profit == IF wins # <<>> THEN Sum(wins) ELSE 0
             gross_loss == IF losses # <<>> THEN Abs(Sum(losses)) ELSE 1
         IN [total_trades |-> Len(pnls),
             winning_trades |-> Len(wins),
             losing_trades |-> Len(losses),
             total_pnl |-> Sum(pnls),
             profit_factor |-> IF gross_loss > 0
                               THEN [num |-> gross_profit, den |-> gross_loss]
                               ELSE [num |-> 0, den |-> 1]]

\* An iteration that asks the strategy whether or not a position is open.
Mutant_run_bar_always_asks(b, bar, signal) ==
    LET at == [b EXCEPT !.started_open = b.current_position # None,
                        !.queried = TRUE,
                        !.exit_checked = b.current_position # None,
                        !.bar = Some(bar),
                        !.signal = signal]
        done == IF signal # None
                THEN _open_trade(_check_exit(at, bar), signal[1])
                ELSE _check_exit(at, bar)
    IN IF done.raised THEN [done EXCEPT !.pc = "raised"]
       ELSE [update_equity_curve(done, bar) EXCEPT
                !.i = @ + 1, !.last_close = bar.close]
\* One iteration of run_backtest's loop, l.87-113: the exit check with a
\* position open, the strategy without, then the equity curve; an exception
\* ends the run where it is raised.
run_bar(b, bar, signal) ==
    LET at == [b EXCEPT !.started_open = b.current_position # None,
                        !.queried = b.current_position = None,
                        !.exit_checked = b.current_position # None,
                        !.bar = Some(bar),
                        !.signal = IF b.current_position = None
                                   THEN signal ELSE None]
        done == IF b.current_position # None
                THEN _check_exit(at, bar)
                ELSE IF signal # None THEN _open_trade(at, signal[1]) ELSE at
    IN IF done.raised THEN [done EXCEPT !.pc = "raised"]
       ELSE [update_equity_curve(done, bar) EXCEPT
                !.i = @ + 1, !.last_close = bar.close]

\* The end of run_backtest, l.115-121: a position left open is closed at the
\* last bar's close and the results are computed.
finish_backtest(b) ==
    LET closed == IF b.current_position # None
                  THEN _close_position(
                           [b EXCEPT !.current_position[1].exit_price =
                                        Some(b.last_close)],
                           None)
                  ELSE b
    IN [closed EXCEPT
           !.pc = "returned",
           !.results = Some(_calculate_results(
                                [k \in 1..Len(closed.trades) |->
                                    closed.trades[k].pnl]))]

\* The profits and losses of the trades an engine holds.
TradePnls == {-100, 0, 50, 200}
PnlLists ==
    {<<>>} \cup [1..1 -> TradePnls] \cup [1..2 -> TradePnls]
        \cup [1..3 -> TradePnls]
\* _calculate_results on an engine that holds these trades.
CallCalculateResults ==
    /\ \E pnls \in PnlLists :
         fn_call' = [fn |-> "_calculate_results",
                     args |-> [pnls |-> pnls],
                     result |-> _calculate_results(pnls)]
    /\ UNCHANGED <<engine_vars, trader_vars, quant_vars, threads, trader, loop,
                   service, outside, backtest, auto_trader>>

\* MLEngine.calculate_compounding_lot on its own: lots in hundredths, the
\* drawdown in hundredths of a percent.
CompoundingLots == {1, 100}
CompoundingEquities == {8000, 10000, 10001, 40000}
Drawdowns == {0, 200, 300, 301, 400, 2000}
CallCompoundingLot ==
    /\ \E base_lot \in CompoundingLots, equity \in CompoundingEquities,
          drawdown \in Drawdowns :
         fn_call' = [fn |-> "calculate_compounding_lot",
                     args |-> [base_lot |-> base_lot, equity |-> equity,
                               drawdown |-> drawdown],
                     result |-> calculate_compounding_lot(base_lot, equity,
                                                          drawdown)]
    /\ UNCHANGED <<engine_vars, trader_vars, quant_vars, threads, trader, loop,
                   service, outside, backtest, auto_trader>>

FnNext ==
    \/ CallCheckNewsStop
    \/ CallPositionSize
    \/ CallCalculateResults
    \/ CallCompoundingLot

FnSpec == BenchInit /\ [][FnNext]_vars

\* POST /backtest: run_backtest begins with reset().
StartBacktest ==
    /\ IF backtest = <<>> THEN TRUE
       ELSE backtest.pc \in {"returned", "raised"}
    /\ backtest' = ResetEngine
    /\ UNCHANGED <<engine_vars, trader_vars, quant_vars, threads, trader, loop,
                   service, outside, fn_call, auto_trader>>

\* The loop meets one more bar.
BacktestBar ==
    /\ backtest # <<>>
    /\ backtest.pc = "loop"
    /\ backtest.i < MaxBars
    /\ \E bar \in BacktestBars, signal \in StrategyOutcomes :
         backtest' = run_bar(backtest, bar, signal)
    /\ UNCHANGED <<engine_vars, trader_vars, quant_vars, threads, trader, loop,
                   service, outside, fn_call, auto_trader>>

\* The data frame has no more bars.
BacktestReturn ==
    /\ backtest # <<>>
    /\ backtest.pc = "loop"
    /\ backtest' = finish_backtest(backtest)
    /\ UNCHANGED <<engine_vars, trader_vars, quant_vars, threads, trader, loop,
                   service, outside, fn_call, auto_trader>>

BacktestNext == StartBacktest \/ BacktestBar \/ BacktestReturn

BacktestSpec == BenchInit /\ [][BacktestNext]_vars

(***************************************************************************)
(* AutoTrader.start and AutoTrader.stop, called one after the other, and   *)
(* the scan threads start() has spawned.  A scan thread is at the test of  *)
(* its while loop ("top"), inside a scan cycle ("scan"), in time.sleep     *)
(* ("sleep") or has ended ("exited").                                      *)
(***************************************************************************)
\* AutoTrader.__init__; thread 0 is None.  The last call: its name, how it
\* ended, whether it is still waiting in join, and a mark that turns with
\* every call.
NewTrader ==
    [running |-> FALSE, stop_event |-> FALSE, thread |-> 0,
     scan_threads |-> <<>>,
     call |-> [fn |-> "none", outcome |-> "", pc |-> "done", turn |-> FALSE]]

\* AIAgent.start_ollama_service: Popen raises (no health request is made
\* and the agent is as it was) or the health is checked again.
start_ollama_service(agent, health) ==
    IF health = NoHealth THEN agent ELSE _check_ollama_health(agent, health)

\* AutoTrader._validate_system_ready, with the agent as the attempt to
\* start the service left it.
_validate_system_ready(connected, agent, health) ==
    IF ~connected THEN [ready |-> FALSE, agent |-> agent]
    ELSE LET status == IF agent.ollama_ready THEN agent
                       ELSE start_ollama_service(agent, health)
         IN IF ~status.ollama_ready THEN [ready |-> FALSE, agent |-> status]
            ELSE IF Model \notin status.loaded_models
                 THEN [ready |-> FALSE, agent |-> status]
                 ELSE [ready |-> TRUE, agent |-> status]

\* A start() that sets running before it validates.
Mutant_start_engages_before_validation(t, connected, agent, health) ==
    LET called == [t EXCEPT !.call = [fn |-> "start", outcome |-> "skipped",
                                      pc |-> "done", turn |-> ~t.call.turn]]
        v == _validate_system_ready(connected, agent, health)
    IN IF t.running THEN [trader |-> called, agent |-> agent]
       ELSE IF ~v.ready
            THEN [trader |-> [called EXCEPT !.running = TRUE,
                                            !.call.outcome = "raised"],
                  agent |-> v.agent]
            ELSE [trader |-> [called EXCEPT
                                 !.running = TRUE,
                                 !.stop_event = FALSE,
                                 !.thread = Len(t.scan_threads) + 1,
                                 !.scan_threads = Append(@, "top"),
                                 !.call.outcome = "started"],
                  agent |-> v.agent]
\* AutoTrader.start: nothing when running, RuntimeError when the validation
\* fails, otherwise the flag, the cleared event and a new thread.
start(t, connected, agent, health) ==
    LET called == [t EXCEPT !.call = [fn |-> "start", outcome |-> "skipped",
                                      pc |-> "done", turn |-> ~t.call.turn]]
        v == _validate_system_ready(connected, agent, health)
    IN IF t.running THEN [trader |-> called, agent |-> agent]
       ELSE IF ~v.ready
            THEN [trader |-> [called EXCEPT !.call.outcome = "raised"],
                  agent |-> v.agent]
            ELSE [trader |-> [called EXCEPT
                                 !.running = TRUE,
                                 !.stop_event = FALSE,
                                 !.thread = Len(t.scan_threads) + 1,
                                 !.scan_threads = Append(@, "top"),
                                 !.call.outcome = "started"],
                  agent |-> v.agent]

EngageInit ==
    /\ paper_trading = TRUE
    /\ mt5_connected = FALSE
    /\ orders = <<>>
    /\ positions = <<>>
    /\ trade_history = <<>>
    /\ order_counter = 0
    /\ paper_balance = InitialBalance
    /\ paper_equity = InitialBalance
    /\ last_op = NoOp
    /\ price_ops = 0
    /\ TraderIdle
    /\ ollama_ready = FALSE
    /\ loaded_models = {}
    /\ ml_engine = "heuristic"
    /\ QuantIdle
    /\ threads = <<>>
    /\ trader = <<>>
    /\ loop = <<>>
    /\ service = <<>>
    /\ outside = <<>>
    /\ fn_call = <<>>
    /\ backtest = <<>>
    /\ auto_trader = NewTrader

\* POST /auto/start, or run.py at boot: one call of start().
StartTrader ==
    /\ auto_trader.call.pc = "done"
    /\ Len(auto_trader.scan_threads) < MaxLoopThreads
    /\ \E health \in HealthOutcomes \cup {NoHealth} :
         LET r == start(auto_trader, rt_connected, Agent, health)
         IN /\ auto_trader' = r.trader
            /\ ollama_ready' = r.agent.ollama_ready
            /\ loaded_models' = r.agent.loaded_models
    /\ UNCHANGED <<engine_vars, rt_connected, settings, min_confidence,
                   min_risk_reward, last_signal_time, now, ml_engine, analysis,
                   quant_vars, threads, trader, loop, service, outside,
                   fn_call, backtest>>

\* POST /auto/stop: stop() up to its join, l.117-120.
StopCall ==
    /\ auto_trader.call.pc = "done"
    /\ auto_trader' =
          [auto_trader EXCEPT
              !.running = FALSE,
              !.stop_event = TRUE,
              !.call = [fn |-> "stop", outcome |-> "",
                        pc |-> IF auto_trader.thread # 0
                               THEN "join" ELSE "done",
                        turn |-> ~auto_trader.call.turn]]
    /\ UNCHANGED <<engine_vars, trader_vars, quant_vars, threads, trader, loop,
                   service, outside, fn_call, backtest>>

\* self.thread.join(timeout=2) returns: the thread has ended, or the two
\* seconds have passed with the thread in a scan or in its sleep of
\* scan_interval seconds.
StopJoin ==
    /\ auto_trader.call.pc = "join"
    /\ LET at == auto_trader.scan_threads[auto_trader.thread]
       IN /\ at \in {"exited", "scan", "sleep"}
          /\ auto_trader' =
                [auto_trader EXCEPT
                    !.call.pc = "done",
                    !.call.outcome = IF at = "exited"
                                     THEN "joined" ELSE "timed_out"]
    /\ UNCHANGED <<engine_vars, trader_vars, quant_vars, threads, trader, loop,
                   service, outside, fn_call, backtest>>

\* Scan thread k at `while not self.stop_event.is_set()`, l.322.
LoopTest(k) ==
    /\ auto_trader.scan_threads[k] = "top"
    /\ auto_trader' =
          [auto_trader EXCEPT
              !.scan_threads[k] =
                 IF loop_continues(auto_trader.stop_event)
                 THEN "scan" ELSE "exited"]
    /\ UNCHANGED <<engine_vars, trader_vars, quant_vars, threads, trader, loop,
                   service, outside, fn_call, backtest>>

\* Scan thread k ends its scan cycle, l.323-343.
LoopScan(k) ==
    /\ auto_trader.scan_threads[k] = "scan"
    /\ auto_trader' = [auto_trader EXCEPT !.scan_threads[k] = "sleep"]
    /\ UNCHANGED <<engine_vars, trader_vars, quant_vars, threads, trader, loop,
                   service, outside, fn_call, backtest>>

\* Scan thread k wakes from time.sleep(self.scan_interval), l.346.
LoopSleep(k) ==
    /\ auto_trader.scan_threads[k] = "sleep"
    /\ auto_trader' = [auto_trader EXCEPT !.scan_threads[k] = "top"]
    /\ UNCHANGED <<engine_vars, trader_vars, quant_vars, threads, trader, loop,
                   service, outside, fn_call, backtest>>

EngageNext ==
    \/ StartTrader
    \/ StopCall
    \/ StopJoin
    \/ \E k \in 1..Len(auto_trader.scan_threads) : LoopTest(k)
    \/ \E k \in 1..Len(auto_trader.scan_threads) : LoopScan(k)
    \/ \E k \in 1..Len(auto_trader.scan_threads) : LoopSleep(k)
    \/ SetConnection
    \/ CheckHealth

EngageSpec == EngageInit /\ [][EngageNext]_vars

(***************************************************************************)
(* QuantEngine's indicators, called on their own on short series.  A float *)
(* is the exact fraction num / den in lowest terms; NaN is None.  Python   *)
(* index i of an array is index i + 1 of the sequence.                     *)
(***************************************************************************)
RECURSIVE GCD(_, _)
GCD(a, b) == IF b = 0 THEN a ELSE GCD(b, a % b)
Frac(n, d) ==
    LET g == GCD(Abs(n), d) IN [num |-> n \div g, den |-> d \div g]
Whole(n) == [num |-> n, den |-> 1]
FAdd(a, b) ==
    LET l == (a.den \div GCD(a.den, b.den)) * b.den
    IN Frac(a.num * (l \div a.den) + b.num * (l \div b.den), l)
FSub(a, b) == FAdd(a, [b EXCEPT !.num = -@])
FMul(a, b) == Frac(a.num * b.num, a.den * b.den)
\* a / b for b > 0
FDiv(a, b) == Frac(a.num * b.den, a.den * b.num)

\* IndexError: index out of bounds.
IndexError == [raised |-> TRUE, values |-> <<>>]
Returned(values) == [raised |-> FALSE, values |-> values]

RECURSIVE ema_at(_, _, _)
\* ema[i - 1] of calculate_ema, l.55-57, on a series of fractions.
ema_at(xs, period, i) ==
    IF i = 1 THEN xs[1]
    ELSE FAdd(FMul(Frac(2, period + 1), xs[i]),
              FMul(Frac(period - 1, period + 1), ema_at(xs, period, i - 1)))
\* QuantEngine.calculate_ema: ema[0] = data[0] fails on an empty array.
calculate_ema(xs, period) ==
    IF xs = <<>> THEN IndexError
    ELSE Returned([i \in 1..Len(xs) |-> Some(ema_at(xs, period, i))])

RECURSIVE wilder_at(_, _, _)
\* avg[i] of l.69-74 and l.98-100 for i >= period: the mean of the first
\* period values, then (avg[i-1] * (period - 1) + xs[i-1]) / period.
wilder_at(xs, period, i) ==
    IF i = period
    THEN Frac(Sum(SubSeq(xs, 1, period)), period)
    ELSE FAdd(FMul(Frac(period - 1, period), wilder_at(xs, period, i - 1)),
              Frac(xs[i], period))
\* An array of zeros whose entries from index period on are the averages;
\* the assignment at index period fails when the array is that short.
wilder(xs, period, i) ==
    IF i < period THEN Whole(0) ELSE wilder_at(xs, period, i)

\* np.diff
Deltas(data) == [j \in 1..(Len(data) - 1) |-> data[j + 1] - data[j]]
\* l.76-77: rs is 100 where avg_loss is 0.
rsi_of(avg_gain, avg_loss) ==
    LET rs == IF avg_loss.num # 0 THEN FDiv(avg_gain, avg_loss)
              ELSE Whole(100)
    IN FSub(Whole(100), FDiv(Whole(100), FAdd(Whole(1), rs)))
\* QuantEngine.calculate_rsi
calculate_rsi(data, period) ==
    LET deltas == Deltas(data)
        gains == [j \in 1..Len(deltas) |->
                    IF deltas[j] > 0 THEN deltas[j] ELSE 0]
        losses == [j \in 1..Len(deltas) |->
                     IF deltas[j] < 0 THEN -deltas[j] ELSE 0]
    IN IF Len(data) <= period THEN IndexError
       ELSE Returned([k \in 1..Len(data) |->
                Some(rsi_of(wilder(gains, period, k - 1),
                            wilder(losses, period, k - 1)))])

\* QuantEngine.calculate_bollinger_bands: the rolling mean and the rolling
\* variance (upper and lower are the mean plus and minus two standard
\* deviations); NaN before a window is full.
calculate_bollinger_bands(data, period) ==
    Returned([k \in 1..Len(data) |->
        IF k < period THEN None
        ELSE LET window == SubSeq(data, k - period + 1, k)
                 total == Sum(window)
                 squares == Sum([j \in 1..period |-> window[j] * window[j]])
             IN Some([middle |-> Frac(total, period),
                      variance |-> Frac(period * squares - total * total,
                                        period * (period - 1))])])

\* QuantEngine.calculate_atr on bars of high, low and close.
calculate_atr(bars, period) ==
    LET tr == [j \in 1..(Len(bars) - 1) |->
                 Max(bars[j + 1].high - bars[j + 1].low,
                     Max(Abs(bars[j + 1].high - bars[j].close),
                         Abs(bars[j + 1].low - bars[j].close)))]
    IN IF Len(bars) <= period THEN IndexError
       ELSE Returned([k \in 1..Len(bars) |->
                Some(wilder(tr, period, k - 1))])

\* QuantEngine.calculate_macd: the histogram.
calculate_macd(data, fast, slow, signal) ==
    LET xs == [i \in 1..Len(data) |-> Whole(data[i])]
        macd_line == [i \in 1..Len(xs) |->
                        FSub(ema_at(xs, fast, i), ema_at(xs, slow, i))]
    IN IF data = <<>> THEN IndexError
       ELSE Returned([i \in 1..Len(xs) |->
                Some(FSub(macd_line[i], ema_at(macd_line, signal, i)))])

\* QuantEngine.calculate_vwap: 0 / 0 is NaN while no volume has traded.
calculate_vwap(bars) ==
    Returned([k \in 1..Len(bars) |->
        LET tpv == Sum([j \in 1..k |->
                          (bars[j].high + bars[j].low + bars[j].close)
                              * bars[j].volume])
            cumulative_volume == Sum([j \in 1..k |-> bars[j].volume])
        IN IF cumulative_volume = 0 THEN None
           ELSE Some(Frac(tpv, 3 * cumulative_volume))])

\* A detect_regime that tests the breakout before the volatility.
Mutant_detect_regime_breakout_first(atr_current, atr_avg, bb_width, bb_avg_width, ema_diff) ==
    IF Abs(ema_diff) > 50 /\ atr_current > atr_avg THEN "BREAKOUT"
    ELSE IF 10 * atr_current > 12 * atr_avg
            /\ 10 * bb_width > 11 * bb_avg_width THEN "VOLATILE"
    ELSE IF Abs(ema_diff) > 30
         THEN IF Abs(ema_diff) > 50 THEN "TRENDING_STRONG"
              ELSE "TRENDING_WEAK"
    ELSE "RANGING"
\* QuantEngine.detect_regime, l.176-186, on the five numbers it computes;
\* ema_diff in hundredths of a percent.
detect_regime(atr_current, atr_avg, bb_width, bb_avg_width, ema_diff) ==
    IF 10 * atr_current > 12 * atr_avg
       /\ 10 * bb_width > 11 * bb_avg_width THEN "VOLATILE"
    ELSE IF Abs(ema_diff) > 50 /\ atr_current > atr_avg THEN "BREAKOUT"
    ELSE IF Abs(ema_diff) > 30
         THEN IF Abs(ema_diff) > 50 THEN "TRENDING_STRONG"
              ELSE "TRENDING_WEAK"
    ELSE "RANGING"

\* The series the indicators are called on: closes, and bars with volume.
ClosePrices == {1, 2}
IndicatorBars ==
    {[high |-> 3, low |-> 1, close |-> 2, volume |-> 0],
     [high |-> 2, low |-> 2, close |-> 2, volume |-> 1]}
SeriesOf(S) == UNION {[1..n -> S] : n \in 0..MaxSeries}
IndicatorPeriods == {2, 3}
\* What detect_regime computes: the volatility now and on average, the band
\* width now and on average, the trend.
RegimeInputs ==
    [atr_current : {0, 10, 11, 13}, atr_avg : {0, 10},
     bb_width : {0, 11, 12}, bb_avg_width : {0, 10},
     ema_diff : {-60, -50, -40, 0, 30, 31, 50, 51}]

CallEma ==
    /\ \E data \in SeriesOf(ClosePrices), period \in IndicatorPeriods :
         fn_call' = [fn |-> "calculate_ema",
                     args |-> [data |-> data, period |-> period],
                     result |-> calculate_ema(
                                    [i \in 1..Len(data) |-> Whole(data[i])],
                                    period)]
    /\ UNCHANGED <<engine_vars, trader_vars, quant_vars, threads, trader, loop,
                   service, outside, backtest, auto_trader>>

CallRsi ==
    /\ \E data \in SeriesOf(ClosePrices), period \in IndicatorPeriods :
         fn_call' = [fn |-> "calculate_rsi",
                     args |-> [data |-> data, period |-> period],
                     result |-> calculate_rsi(data, period)]
    /\ UNCHANGED <<engine_vars, trader_vars, quant_vars, threads, trader, loop,
                   service, outside, backtest, auto_trader>>

CallBollinger ==
    /\ \E data \in SeriesOf(ClosePrices), period \in IndicatorPeriods :
         fn_call' = [fn |-> "calculate_bollinger_bands",
                     args |-> [data |-> data, period |-> period],
                     result |-> calculate_bollinger_bands(data, period)]
    /\ UNCHANGED <<engine_vars, trader_vars, quant_vars, threads, trader, loop,
                   service, outside, backtest, auto_trader>>

CallAtr ==
    /\ \E bars \in SeriesOf(IndicatorBars), period \in IndicatorPeriods :
         fn_call' = [fn |-> "calculate_atr",
                     args |-> [data |-> bars, period |-> period],
                     result |-> calculate_atr(bars, period)]
    /\ UNCHANGED <<engine_vars, trader_vars, quant_vars, threads, trader, loop,
                   service, outside, backtest, auto_trader>>

\* calculate_macd with fast = period, slow = period + 1, signal = period.
CallMacd ==
    /\ \E data \in SeriesOf(ClosePrices), period \in IndicatorPeriods :
         fn_call' = [fn |-> "calculate_macd",
                     args |-> [data |-> data, period |-> period + 1],
                     result |-> calculate_macd(data, period, period + 1,
                                               period)]
    /\ UNCHANGED <<engine_vars, trader_vars, quant_vars, threads, trader, loop,
                   service, outside, backtest, auto_trader>>

\* calculate_vwap needs one bar.
CallVwap ==
    /\ \E bars \in SeriesOf(IndicatorBars) :
         fn_call' = [fn |-> "calculate_vwap",
                     args |-> [data |-> bars, period |-> 1],
                     result |-> calculate_vwap(bars)]
    /\ UNCHANGED <<engine_vars, trader_vars, quant_vars, threads, trader, loop,
                   service, outside, backtest, auto_trader>>

\* The classification at the end of detect_regime.  An average over values
\* that are not negative is 0 only when the last value is.
CallDetectRegime ==
    /\ \E q \in RegimeInputs :
         /\ q.atr_avg = 0 => q.atr_current = 0
         /\ q.bb_avg_width = 0 => q.bb_width = 0
         /\ fn_call' = [fn |-> "detect_regime",
                        args |-> q,
                        result |-> detect_regime(q.atr_current, q.atr_avg,
                                                 q.bb_width, q.bb_avg_width,
                                                 q.ema_diff)]
    /\ UNCHANGED <<engine_vars, trader_vars, quant_vars, threads, trader, loop,
                   service, outside, backtest, auto_trader>>

IndicatorNext ==
    \/ CallEma
    \/ CallRsi
    \/ CallBollinger
    \/ CallAtr
    \/ CallMacd
    \/ CallVwap
    \/ CallDetectRegime

IndicatorSpec == BenchInit /\ [][IndicatorNext]_vars


(***************************************************************************)
(* Properties of the execution engine.                                     *)
(***************************************************************************)
\* The order a place_order step has just appended.
NewOrder == orders'[order_counter']
PlacedNow == order_counter' = order_counter + 1

\* C5: every order is created PENDING and its status is assigned exactly once
\* more, to FILLED or REJECTED, before place_order returns; no order is
\* returned PENDING, and an order already returned never changes again.
C5_StatusChangesOnce ==
    [][/\ \A i \in 1..Len(orders) : orders'[i] = orders[i]
       /\ PlacedNow =>
            /\ Len(orders') = order_counter'
            /\ NewOrder.status_log \in {<<"PENDING", "FILLED">>,
                                        <<"PENDING", "REJECTED">>}
            /\ NewOrder.status = NewOrder.status_log[2]]_vars

\* C5 witness: live mode has returned one order FILLED and one REJECTED after
\* the gateway raised.
C5_Witness ==
    /\ ~paper_trading
    /\ last_op.op = "place_order"
    /\ last_op.gateway = "raise"
    /\ orders[last_op.order_id].status = "REJECTED"
    /\ \E i \in 1..Len(orders) : orders[i].status = "FILLED"

\* C6 (as claimed): after place_order returns an order FILLED, in paper and in
\* live mode, the position map holds a position for the order's symbol: a new
\* one with the order's side, quantity, fill price, stop and target if there
\* was none, otherwise the old one with the quantity added and the entry
\* price averaged with the fill price.
C6_FilledOrderHasPosition ==
    [][(PlacedNow /\ NewOrder.status = "FILLED") =>
         /\ HasPosition(positions', NewOrder.symbol)
         /\ LET fill == NewOrder.filled_price[1]
                new == PositionOf(positions', NewOrder.symbol)
            IN IF HasPosition(positions, NewOrder.symbol)
               THEN LET old == PositionOf(positions, NewOrder.symbol)
                    IN /\ new.quantity = old.quantity + NewOrder.quantity
                       /\ 2 * new.entry_price = old.entry_price + fill
               ELSE /\ new.side = NewOrder.side
                    /\ new.quantity = NewOrder.quantity
                    /\ new.entry_price = fill
                    /\ new.stop_loss = NewOrder.stop_loss
                    /\ new.take_profit = NewOrder.take_profit]_vars

\* C7: a place_order that ends REJECTED creates or changes no position and
\* leaves balance, equity and trade history as they were.
C7_RejectedChangesNothing ==
    [][(PlacedNow /\ NewOrder.status = "REJECTED") =>
         /\ positions' = positions
         /\ paper_balance' = paper_balance
         /\ paper_equity' = paper_equity
         /\ trade_history' = trade_history]_vars

\* C7 witness: the gateway has just declined an order.
C7_Witness ==
    /\ last_op.op = "place_order"
    /\ last_op.gateway = "declined"
    /\ orders[last_op.order_id].status = "REJECTED"

\* C8 (as claimed): after update_positions(prices), every open position with a
\* price in the map carries that price and the pnl recomputed from it, and
\* none of them has reached or crossed its stop or target.
C8_UpdateClosesEveryCrossing ==
    last_op.op = "update_positions" =>
        \A i \in 1..Len(positions) :
            positions[i].symbol \in DOMAIN last_op.prices =>
                LET price == last_op.prices[positions[i].symbol]
                IN /\ positions[i].current_price = price
                   /\ positions[i].unrealized_pnl = ClosePnl(positions[i], price)
                   /\ ~Crossed(positions[i], price)

\* C9 (as claimed): in paper mode equity = balance + the sum of unrealized_pnl
\* over the open positions, after every engine operation.
C9_EquityIsBalancePlusUnrealized ==
    paper_trading => paper_equity = paper_balance + SumUnrealized(positions)

\* C10: whenever a position leaves the map, by close_position or by a stop or
\* target hit inside update_positions, the balance changes by exactly
\* (price - entry) x quantity for a BUY and (entry - price) x quantity for a
\* SELL; close_position returns that pnl, and on a symbol with no open
\* position it returns None and changes nothing.
C10_CloseRealizesPnl ==
    [][price_ops' = price_ops + 1 =>
         /\ \A i \in 1..Len(positions) :
              ~HasPosition(positions', positions[i].symbol) =>
                  /\ positions[i].symbol \in DOMAIN last_op'.prices
                  /\ paper_balance' - paper_balance =
                         ClosePnl(positions[i],
                                  last_op'.prices[positions[i].symbol])
         /\ last_op'.op = "close_position" =>
              IF HasPosition(positions, last_op'.symbol)
              THEN /\ ~HasPosition(positions', last_op'.symbol)
                   /\ Len(positions') = Len(positions) - 1
                   /\ last_op'.result =
                        Some(ClosePnl(PositionOf(positions, last_op'.symbol),
                                      last_op'.prices[last_op'.symbol]))
              ELSE /\ last_op'.result = None
                   /\ positions' = positions
                   /\ paper_balance' = paper_balance
                   /\ paper_equity' = paper_equity]_vars

\* C10 witness: an explicit close has realized the pnl of a SELL position
\* after an earlier stop or target hit closed another position.
C10_Witness ==
    /\ last_op.op = "close_position"
    /\ last_op.result # None
    /\ last_op.result[1] # 0
    /\ price_ops = 2
    /\ positions = <<>>
    /\ Len(trade_history) = 2
    /\ orders[1].symbol # orders[2].symbol
    /\ \E i \in 1..2 : orders[i].symbol = last_op.symbol /\ orders[i].side = "SELL"

(***************************************************************************)
(* Properties of the analysis pipeline.                                    *)
(***************************************************************************)
\* The collaborators of the six checks and of the execution, in the order
\* the pipeline reaches them.
PipelineCalls == <<"advisor", "estimator", "news", "tick", "place_order">>
\* The calls a run made to them.
CallsMade(a) == SelectSeq(a.calls, LAMBDA c : c \in {"advisor", "estimator",
                                                     "news", "tick",
                                                     "place_order"})
\* The calls a run has made when the check of the given stage fails.
CallsUpTo(stage) ==
    CASE stage = "CONFIDENCE_CHECK" -> <<>>
      [] stage = "RISK_REWARD_CHECK" -> <<>>
      [] stage = "ADVISOR_CHECK" -> SubSeq(PipelineCalls, 1, 1)
      [] stage = "PROBABILITY_CHECK" -> SubSeq(PipelineCalls, 1, 2)
      [] stage = "NEWS_CHECK" -> SubSeq(PipelineCalls, 1, 3)
      [] stage = "LIQUIDITY_CHECK" -> SubSeq(PipelineCalls, 1, 4)
CheckStages ==
    {"CONFIDENCE_CHECK", "RISK_REWARD_CHECK", "ADVISOR_CHECK",
     "PROBABILITY_CHECK", "NEWS_CHECK", "LIQUIDITY_CHECK"}
\* The run failed one of the six checks.
FailedCheck(a) == a.outcome \in {"REJECTED", "ERROR"} /\ a.stage \in CheckStages
\* The advisor's validation approves the run's signal.
Approved(a) ==
    /\ a.ai # None
    /\ Get(a.ai[1].confidence, 0) >= 50
    /\ Get(a.ai[1].decision, "HOLD") = a.signal[1].direction

\* C1: the checks run in the order CONFIDENCE, RISK_REWARD, ADVISOR,
\* PROBABILITY, NEWS, LIQUIDITY and the first failure ends the analysis: a run
\* that failed a check has called exactly the collaborators of the checks up
\* to that one, in order, and placed no order; a signal below the confidence
\* or the risk/reward threshold is rejected there before any collaborator is
\* called.
C1_ChecksInOrderFirstFailureEnds ==
    /\ \E n \in 0..Len(PipelineCalls) :
         CallsMade(analysis) = SubSeq(PipelineCalls, 1, n)
    /\ FailedCheck(analysis) =>
         /\ CallsMade(analysis) = CallsUpTo(analysis.stage)
         /\ analysis.place = "not_called"
         /\ analysis.lots = None
    /\ analysis.signal # None =>
         LET signal == analysis.signal[1]
             low == signal.confidence < analysis.min_confidence
             poor == signal.risk_reward < analysis.min_risk_reward - 1
         IN /\ low => /\ analysis.outcome = "REJECTED"
                      /\ analysis.stage = "CONFIDENCE_CHECK"
                      /\ analysis.calls = <<>>
            /\ ~low /\ poor => /\ analysis.outcome = "REJECTED"
                               /\ analysis.stage = "RISK_REWARD_CHECK"
                               /\ analysis.calls = <<>>
            /\ ~low /\ ~poor => analysis.calls # <<>>

\* C1 witness: a run rejected by the news check, after the advisor and the
\* estimator and before any tick was fetched.
C1_Witness ==
    /\ analysis.outcome = "REJECTED"
    /\ analysis.stage = "NEWS_CHECK"
    /\ analysis.calls = <<"advisor", "estimator", "news">>
    /\ analysis.place = "not_called"

\* C2: a run submits an order only after the advisor answered, in the same
\* run, with confidence of at least 0.5 and the signal's own direction; any
\* other answer (HOLD, the opposite direction, lower confidence) ends the run
\* at ADVISOR_CHECK with no further call and no order.
C2_OrderOnlyAfterAdvisorApproval ==
    /\ analysis.place # "not_called" =>
         /\ Approved(analysis)
         /\ \E i, j \in 1..Len(analysis.calls) :
              /\ i < j
              /\ analysis.calls[i] = "advisor"
              /\ analysis.calls[j] = "place_order"
    /\ analysis.ai # None /\ ~Approved(analysis) =>
         /\ analysis.outcome = "REJECTED"
         /\ analysis.stage = "ADVISOR_CHECK"
         /\ analysis.calls = <<"advisor">>
         /\ analysis.place = "not_called"

\* C2 witness: a run that went on to submit an order after the advisor
\* approved its direction.
C2_Witness ==
    /\ analysis.place # "not_called"
    /\ Approved(analysis)
    /\ analysis.calls[Len(analysis.calls)] = "place_order"

\* The advisor could not validate: it was not ready, the model was missing
\* and the health check did not find it, or the request went unanswered,
\* answered with an error status or with JSON that is no object.
AdvisorUnavailable(a) ==
    /\ a.agent # None
    /\ \/ ~a.agent[1].ollama_ready
       \/ /\ Model \notin a.agent[1].loaded_models
          /\ ~(a.health.kind = "ok" /\ Model \in a.health.models)
       \/ a.reply.kind \in {"unreachable", "timeout", "bad_status",
                            "json_not_object"}

\* C3: when the advisor is not ready, has no usable model, cannot be reached,
\* times out or fails, validate_signal yields HOLD with confidence 0 and the
\* run is rejected at ADVISOR_CHECK: the estimator is never asked and no
\* order is placed.
C3_AdvisorFailureRejects ==
    AdvisorUnavailable(analysis) =>
        /\ analysis.ai = Some(Validation(Some("HOLD"), Some(0)))
        /\ analysis.outcome = "REJECTED"
        /\ analysis.stage = "ADVISOR_CHECK"
        /\ analysis.calls = <<"advisor">>
        /\ analysis.place = "not_called"

\* C3 witness: a run whose signal passed confidence and risk/reward met an
\* advisor that was not ready and was rejected at ADVISOR_CHECK.
C3_Witness ==
    /\ analysis.agent # None
    /\ ~analysis.agent[1].ollama_ready
    /\ analysis.outcome = "REJECTED"
    /\ analysis.stage = "ADVISOR_CHECK"

\* C4: a run that passed all six checks with a final lot above zero places
\* exactly one order on the engine, with the signal's direction as side, the
\* final lot as quantity and the signal's stop and target.
C4_ApprovedRunPlacesOneOrder ==
    [][(/\ analysis' # analysis
        /\ analysis'.outcome = "APPROVED"
        /\ analysis'.lots # None
        /\ analysis'.lots[1] > 0)
       => /\ order_counter' = order_counter + 1
          /\ Len(orders') = Len(orders) + 1
          /\ NewOrder.symbol = analysis'.symbol
          /\ NewOrder.side = analysis'.signal[1].direction
          /\ NewOrder.quantity = analysis'.lots[1]
          /\ NewOrder.stop_loss = StopOf(analysis'.signal[1].direction)
          /\ NewOrder.take_profit = TargetOf(analysis'.signal[1].direction)]_vars

\* C13: the auto-trader never submits an order with a quantity of zero or
\* less: a run whose final lot is <= 0 ends without calling place_order, and
\* leaves the engine's orders and positions as they were.
C13_NoOrderForNonPositiveLot ==
    [][(/\ analysis' # analysis
        /\ analysis'.lots # None
        /\ analysis'.lots[1] <= 0)
       => /\ analysis'.place = "not_called"
          /\ \A i \in 1..Len(analysis'.calls) :
                analysis'.calls[i] # "place_order"
          /\ orders' = orders
          /\ positions' = positions
          /\ order_counter' = order_counter]_vars

\* C13 witness: a run that passed all six checks, was sized to a negative
\* lot and stopped before place_order.
C13_Witness ==
    /\ analysis.outcome = "APPROVED"
    /\ analysis.lots # None
    /\ analysis.lots[1] < 0
    /\ analysis.calls[Len(analysis.calls)] = "lot_size"

C12_SignalLevelsOrdered ==
    qe_signal # None =>
        LET g == qe_signal[1]
        IN IF g.direction = "BUY"
           THEN /\ g.stop_loss < g.entry_price
                /\ g.entry_price < g.take_profit_1
                /\ g.take_profit_1 <= g.take_profit_2
                /\ g.take_profit_2 <= g.take_profit_3
           ELSE /\ g.stop_loss > g.entry_price
                /\ g.entry_price > g.take_profit_1
                /\ g.take_profit_1 >= g.take_profit_2
                /\ g.take_profit_2 >= g.take_profit_3

(***************************************************************************)
(* Properties of the engine under concurrent callers.                      *)
(***************************************************************************)
RECURSIVE FilledQuantity(_, _, _)
\* The quantity filled for symbol by the first n orders.
FilledQuantity(os, n, symbol) ==
    IF n = 0 THEN 0
    ELSE FilledQuantity(os, n - 1, symbol)
         + (IF os[n].symbol = symbol THEN os[n].filled_quantity ELSE 0)

\* Every caller has returned or raised.
Quiescent == threads # <<>> /\ \A t \in ThreadIds : threads[t].pc = "done"

\* With no close in between, the position of a symbol holds all that was
\* filled for it.
NoFillLost ==
    (Quiescent /\ threads[ScanThread].closed = 0) =>
        \A symbol \in Symbols :
            FilledQuantity(orders, Len(orders), symbol) > 0 =>
                /\ HasPosition(positions, symbol)
                /\ PositionOf(positions, symbol).quantity
                       = FilledQuantity(orders, Len(orders), symbol)

\* No place_order raises, and update_positions raises only after a close of
\* its own.
NoFailureOnChangedMap ==
    threads # <<>> =>
        /\ \A t \in ApiThreads : threads[t].raised = ""
        /\ threads[ScanThread].raised # "" => threads[ScanThread].closed > 0

OnePositionPerSymbol ==
    \A i, j \in 1..Len(positions) :
        positions[i].symbol = positions[j].symbol => i = j

\* C11: whatever the interleaving of concurrent place_order and
\* update_positions/close_position calls, no fill is lost, no call fails on
\* a map another caller changed under it, and there is at most one Position
\* per symbol.
C11_ConcurrentCallsAreSerialized ==
    /\ NoFillLost
    /\ NoFailureOnChangedMap
    /\ OnePositionPerSymbol

(***************************************************************************)
(* Properties of the two loops.                                            *)
(***************************************************************************)
LoopThreads == {"scan", "stream"}

\* C14: once an analysis of a symbol has reached the execution step (which
\* is when line 308 stamps last_signal_time), no analysis of that symbol, on
\* either thread, runs its pipeline within signal_cooldown of the stamp.
C14_NoAnalysisWithinCooldown ==
    [][\A t \in LoopThreads :
          (loop[t].pc = "pipeline" /\ loop'[t].pc = "symbols") =>
              now - last_signal_time[loop[t].symbol]
                  >= signal_cooldown * TicksPerSecond]_vars

\* C15: two analyses that on_tick starts for one symbol are at least one
\* second apart.
C15_TickAnalysesOneSecondApart ==
    [][\A s \in Symbols :
          (loop'.stream.started[s] # loop.stream.started[s]
           /\ loop.stream.started[s] # 0) =>
              now - loop.stream.started[s] >= 1 * TicksPerSecond]_vars

\* C16: a scan cycle that was not cut short by stop() has analysed every
\* symbol and refreshed the positions when it goes to sleep.
C16_CycleCoversEverySymbol ==
    (loop.scan.pc = "sleep" /\ ~loop.scan.broke) =>
        /\ loop.scan.analysed = {ScanSymbols[i] : i \in 1..Len(ScanSymbols)}
        /\ loop.scan.refreshed

\* C17: neither the scan thread nor the stream thread is ended by an
\* exception.
C17_NoLoopEndsOnException ==
    \A t \in LoopThreads : loop[t].pc # "crashed"

C20_MonitorOutlivesStreaming ==
    service.data_mode = "DISCONNECTED" => service.monitor # "exited"

(***************************************************************************)
(* Properties of generate_signal's scoring.                                *)
(***************************************************************************)
\* C30: on at least 100 candles generate_signal emits a signal exactly when
\* the absolute summed score is at least 1, BUY for a positive sum and SELL
\* for a negative one; otherwise it emits nothing.
C30_DirectionIsSignOfScore ==
    LET emitted == generate_signal([count |-> qe_input.count, valid |-> TRUE],
                                   score_signal(qe_input))
    IN /\ qe_signal # None => qe_signal = emitted
       /\ qe_input.count >= 100 =>
            /\ emitted # None <=> Abs(qe_input.total_score) >= 1
            /\ emitted # None =>
                 emitted[1].direction = IF qe_input.total_score > 0
                                        THEN "BUY" ELSE "SELL"
\* A call on 100 candles with a score of +1 has emitted BUY.
C30_Witness ==
    /\ qe_signal # None
    /\ qe_input.count = 100
    /\ qe_input.total_score = 1
    /\ qe_signal[1].direction = "BUY"

(***************************************************************************)
(* Properties of the analysis against the outside world.                   *)
(***************************************************************************)
\* The run asked the collaborator.
Asked(a, collaborator) ==
    \E i \in 1..Len(a.calls) : a.calls[i] = collaborator
\* The run's request to the advisor timed out or could not be sent.
AdvisorCallFailed(a) == a.reply.kind \in {"unreachable", "timeout"}
\* The run asked for the calendar and the feed could not be fetched.
NewsCallFailed(a) ==
    outside # <<>> /\ outside.runs > 0 /\ Asked(a, "news")
    /\ outside.news = "feed_down"

\* C21: a timeout or an exception in a call an analysis makes to the
\* advisor, to the news feed or to the execution gateway turns the analysis
\* into a rejection: the run ends REJECTED, it does not go on to place an
\* order, and nothing is raised out of it.
C21_ExternalFailureRejects ==
    /\ analysis.place # "bound"
    /\ (AdvisorCallFailed(analysis) \/ NewsCallFailed(analysis)) =>
         /\ analysis.outcome = "REJECTED"
         /\ ~Asked(analysis, "place_order")

\* C23: a run that reaches LIQUIDITY_CHECK with a spread above 30% of the
\* high-low range of the last 14 bars is rejected there and places no order,
\* whatever the spread and the range.
C23_WideSpreadRejects ==
    (/\ outside # <<>>
     /\ outside.runs > 0
     /\ Asked(analysis, "tick")
     /\ outside.tick.tick
     /\ 100 * outside.tick.spread > 30 * outside.tick.range) =>
        /\ analysis.outcome = "REJECTED"
        /\ analysis.stage = "LIQUIDITY_CHECK"
        /\ ~Asked(analysis, "place_order")

\* C22: the probability estimator returns a value in [0,1] for every hour
\* and volatility and never raises, so a run that asks it ends its
\* PROBABILITY_CHECK with a pass or a rejection, never with an error.
C22_EstimatorReturnsProbability ==
    (ml_engine = "heuristic" /\ Asked(analysis, "estimator")) =>
        /\ \A f \in Features :
             /\ ~predict_probability(f).raised
             /\ predict_probability(f).value \in 0..100
        /\ ~(analysis.outcome = "ERROR" /\ analysis.stage = "PROBABILITY_CHECK")

\* The run of this step ended in a rejection at the stage.
RejectedAt(a, stage) == a.outcome = "REJECTED" /\ a.stage = stage

\* C25: a setting changed before an analysis starts is the value the
\* analysis uses: the confidence and risk:reward minima of its checks are
\* the stored ones, and its NEWS_CHECK window is the stored news_buffer, so
\* a run that reaches NEWS_CHECK is rejected there exactly when a blocking
\* event lies within news_buffer minutes.
C25_SettingsTakeEffect ==
    [][(outside # <<>> /\ outside'.runs > outside.runs) =>
          /\ analysis'.min_confidence = settings.quant_confidence
          /\ analysis'.min_risk_reward = settings.risk_reward_min
          /\ Asked(analysis', "news") =>
                (RejectedAt(analysis', "NEWS_CHECK")
                 <=> check_news_stop(FeedOf(outside'.news), analysis'.symbol,
                                     settings.news_buffer).stop)]_vars

(***************************************************************************)
(* Properties of the news check.                                           *)
(***************************************************************************)
\* The event is High-impact, of the symbol's base or quote currency, and its
\* time t satisfies now - 15 min <= t <= now + buffer.
BlocksSymbol(event, symbol, buffer) ==
    /\ event.impact = "High"
    /\ Letters[event.country] \in {SubSeq(Letters[symbol], 1, 3),
                                    SubSeq(Letters[symbol], 4, 6)}
    /\ -15 <= event.offset
    /\ event.offset <= buffer

\* C24: check_news_stop(symbol, buffer) returns stop = true exactly when the
\* calendar holds a High-impact event of the symbol's base or quote currency
\* with now - 15 min <= t <= now + buffer; events of other currencies, of
\* lower impact or outside the window never block.
C24_StopExactlyInWindow ==
    (/\ fn_call # <<>>
     /\ fn_call.fn = "check_news_stop"
     /\ fn_call.args.feed.status = "ok") =>
        (fn_call.result.stop
         <=> \E i \in 1..Len(fn_call.args.feed.events) :
                BlocksSymbol(fn_call.args.feed.events[i],
                             fn_call.args.symbol, fn_call.args.buffer))

(***************************************************************************)
(* Properties of the position sizer.                                       *)
(***************************************************************************)
\* C26: for every equity, stop distance (0 included) and instrument the lot
\* of the position sizer lies in [volume_min, volume_max] and is a multiple
\* of volume_step; with stop distance 0 nothing is divided by zero and a
\* default lot is returned.
C26_LotWithinInstrumentLimits ==
    (/\ fn_call # <<>>
     /\ fn_call.fn = "position_size"
     /\ fn_call.args.account.balance # None) =>
        /\ ~fn_call.result.raised
        /\ fn_call.result.lot >= fn_call.args.symbol_info.volume_min
        /\ fn_call.result.lot <= fn_call.args.symbol_info.volume_max
        /\ fn_call.result.lot % fn_call.args.symbol_info.volume_step = 0

(***************************************************************************)
(* Properties of the backtest engine.                                      *)
(***************************************************************************)
\* The step is an iteration of run_backtest's loop.
BarStep ==
    /\ backtest # <<>>
    /\ backtest.pc = "loop"
    /\ backtest' # backtest
    /\ backtest'.pc # "returned"

\* C27: at every step of run_backtest at most one position is open (the
\* recorded trades are all closed); an iteration that starts with a position
\* open runs the exit check only and does not call the strategy; the
\* strategy is asked only when flat, so a trade opens no earlier than the
\* bar after the one on which the previous trade was closed.
C27_OnePositionStrategyOnlyWhenFlat ==
    [][BarStep =>
        /\ \A k \in 1..Len(backtest'.trades) :
             backtest'.trades[k].status = "CLOSED"
        /\ backtest.current_position # None =>
             /\ backtest'.exit_checked
             /\ ~backtest'.queried
             /\ backtest'.current_position \in
                    {None, backtest.current_position,
                     Some([backtest.current_position[1] EXCEPT
                              !.exit_price =
                                 Some(backtest.current_position[1].stop_loss)]),
                     Some([backtest.current_position[1] EXCEPT
                              !.exit_price =
                                 Some(backtest.current_position[1].take_profit)])}
        /\ backtest'.queried => backtest.current_position = None
        /\ (backtest.current_position = None
            /\ backtest'.current_position # None) =>
             \A k \in 1..Len(backtest'.trades) :
                backtest'.trades[k].closed
                    < backtest'.current_position[1].opened]_vars
\* An iteration began with a position open, checked its exit, left it open
\* and did not ask the strategy.
C27_Witness ==
    /\ backtest # <<>>
    /\ backtest.pc = "loop"
    /\ backtest.i >= 2
    /\ backtest.started_open
    /\ backtest.exit_checked
    /\ ~backtest.queried
    /\ backtest.current_position # None

\* C28: after run_backtest returns no position is open, every recorded
\* trade is CLOSED with an exit price and pnl = (exit - entry) x size for a
\* long, (entry - exit) x size for a short, a position open at the last bar
\* was closed at that bar's close, and total_pnl = the sum of the trades'
\* pnl = final capital - initial capital.
C28_ReturnedRunIsSettled ==
    (backtest # <<>> /\ backtest.pc = "returned") =>
        /\ backtest.current_position = None
        /\ \A k \in 1..Len(backtest.trades) :
             LET t == backtest.trades[k]
             IN /\ t.status = "CLOSED"
                /\ t.exit_price # None
                /\ t.pnl = IF t.direction = "LONG"
                           THEN (t.exit_price[1] - t.entry_price) * t.size
                           ELSE (t.entry_price - t.exit_price[1]) * t.size
                /\ t.closed = backtest.i => t.exit_price[1] = backtest.last_close
        /\ backtest.results # None
        /\ backtest.results[1].total_pnl
             = Sum([k \in 1..Len(backtest.trades) |-> backtest.trades[k].pnl])
        /\ backtest.results[1].total_pnl = backtest.capital - initial_capital
\* A run returned with a short trade that was open at the last bar and was
\* closed there at a loss.
C28_Witness ==
    /\ backtest # <<>>
    /\ backtest.pc = "returned"
    /\ Len(backtest.trades) = 1
    /\ backtest.trades[1].direction = "SHORT"
    /\ backtest.trades[1].pnl < 0
    /\ backtest.trades[1].closed = backtest.i

\* C29: profit_factor equals gross_profit / |gross_loss| when losing trades
\* exist and is 0 when no losing trade was recorded.
C29_ProfitFactor ==
    (fn_call # <<>> /\ fn_call.fn = "_calculate_results") =>
        LET pnls == fn_call.args.pnls
            gross_profit == Sum(SelectSeq(pnls, LAMBDA p : p > 0))
            gross_loss == Sum(SelectSeq(pnls, LAMBDA p : p < 0))
            factor == fn_call.result.profit_factor
        IN IF gross_loss # 0
           THEN factor.num * Abs(gross_loss) = gross_profit * factor.den
           ELSE factor.num = 0

\* C33: when one bar reaches both the stop-loss and the take-profit of the
\* open position (long: low <= stop and high >= target; short: high >= stop
\* and low <= target) the exit check closes the trade at the stop-loss
\* price: after the iteration the position slot is empty and the trade is
\* recorded as CLOSED with the stop as its exit price.
C33_StopBeforeTargetOnSameBar ==
    [][(BarStep /\ backtest.current_position # None) =>
        LET pos == backtest.current_position[1]
            bar == backtest'.bar[1]
            both == IF pos.direction = "LONG"
                    THEN bar.low <= pos.stop_loss /\ bar.high >= pos.take_profit
                    ELSE bar.high >= pos.stop_loss /\ bar.low <= pos.take_profit
        IN both =>
             /\ backtest'.current_position = None
             /\ Len(backtest'.trades) = Len(backtest.trades) + 1
             /\ LET t == backtest'.trades[Len(backtest'.trades)]
                IN /\ t.status = "CLOSED"
                   /\ t.exit_price = Some(pos.stop_loss)]_vars

\* C34: every iteration of run_backtest's loop appends exactly one value to
\* the equity curve, the capital plus the open position's unrealized pnl at
\* the bar's close (the capital alone when flat); the curve starts at the
\* initial capital, and when the run has returned it holds one entry more
\* than bars were met and its last entry is the final capital.
C34_OneEquityValuePerBar ==
    [][(backtest # <<>> /\ backtest.pc = "loop" /\ backtest' # backtest) =>
        LET curve == backtest'.equity_curve
            unrealized ==
                IF backtest'.current_position = None THEN 0
                ELSE LET pos == backtest'.current_position[1]
                         close == backtest'.bar[1].close
                     IN IF pos.direction = "LONG"
                        THEN (close - pos.entry_price) * pos.size
                        ELSE (pos.entry_price - close) * pos.size
        IN /\ curve[1] = initial_capital
           /\ BarStep =>
                /\ Len(curve) = Len(backtest.equity_curve) + 1
                /\ curve[Len(curve)] = backtest'.capital + unrealized
           /\ backtest'.pc = "returned" =>
                /\ Len(curve) = 1 + backtest'.i
                /\ curve[Len(curve)] = backtest'.capital]_vars

\* C35: a new trade's size is (capital at entry x risk_per_trade) /
\* |entry - stop|; a signal whose entry equals its stop opens no trade and
\* leaves capital, trades and the position slot as they were, and every
\* iteration that starts flat asks the strategy, so the bar after such a
\* signal asks it again.
C35_SizeFromRiskAndStopDistance ==
    [][(BarStep /\ backtest.current_position = None) =>
        /\ backtest'.queried
        /\ backtest'.signal # None =>
             LET signal == backtest'.signal[1]
                 distance == Abs(signal.entry - signal.sl)
             IN IF distance = 0
                THEN /\ backtest'.current_position = None
                     /\ backtest'.capital = backtest.capital
                     /\ backtest'.trades = backtest.trades
                ELSE /\ backtest'.current_position # None
                     /\ backtest'.current_position[1].size * distance * 100
                            = backtest.capital * BacktestRisk
                     /\ backtest'.current_position[1].entry_price = signal.entry
                     /\ backtest'.current_position[1].stop_loss = signal.sl]_vars
\* The strategy answered with an entry equal to its stop on the third bar:
\* no trade was opened and the engine is as reset() left it.
C35_Witness ==
    /\ backtest # <<>>
    /\ backtest.pc = "loop"
    /\ backtest.i = 3
    /\ backtest.queried
    /\ backtest.signal # None
    /\ backtest.signal[1].entry = backtest.signal[1].sl
    /\ backtest.current_position = None
    /\ backtest.capital = initial_capital
    /\ backtest.trades = <<>>

\* C37: with drawdown 0 and equity above the threshold of 10000
\* calculate_compounding_lot returns at least the base lot, and for a fixed
\* base lot and equity a larger drawdown above 2% gives a strictly smaller
\* lot.
C37_CompoundingLotMonotone ==
    (fn_call # <<>> /\ fn_call.fn = "calculate_compounding_lot") =>
        LET a == fn_call.args
        IN /\ (a.drawdown = 0 /\ a.equity > GrowthThreshold) =>
                fn_call.result >= a.base_lot
           /\ a.drawdown > DrawdownLimit * 100 =>
                \A larger \in Drawdowns :
                   larger > a.drawdown =>
                      calculate_compounding_lot(a.base_lot, a.equity, larger)
                          < fn_call.result

(***************************************************************************)
(* Properties of start() and stop().                                       *)
(***************************************************************************)
\* The scan threads that are inside a scan cycle.
Scanning == {k \in 1..Len(auto_trader.scan_threads) :
                auto_trader.scan_threads[k] = "scan"}

\* C38: whatever start() and stop() calls have been made, at most one scan
\* thread is executing a scan cycle.
C38_AtMostOneScanThread ==
    auto_trader # <<>> => Cardinality(Scanning) <= 1

\* The step is a call of start().
StartStep ==
    /\ auto_trader # <<>>
    /\ auto_trader'.call.turn # auto_trader.call.turn
    /\ auto_trader'.call.fn = "start"

\* C39: start() while running spawns no thread and changes nothing; start()
\* when the validation fails (connection down, advisor offline after the
\* attempt to start it, required model not loaded) raises, leaves running
\* false and spawns no thread.
C39_StartSkipsOrRaises ==
    [][StartStep =>
        /\ auto_trader.running =>
             /\ auto_trader'.call.outcome = "skipped"
             /\ auto_trader' = [auto_trader EXCEPT !.call = auto_trader'.call]
             /\ ollama_ready' = ollama_ready
             /\ loaded_models' = loaded_models
        /\ (/\ ~auto_trader.running
            /\ \/ ~rt_connected
               \/ ~ollama_ready'
               \/ Model \notin loaded_models') =>
             /\ auto_trader'.call.outcome = "raised"
             /\ ~auto_trader'.running
             /\ auto_trader'.thread = auto_trader.thread
             /\ auto_trader'.scan_threads = auto_trader.scan_threads]_vars
\* start() raised with the connection up, because the advisor does not hold
\* the required model; an earlier start() had spawned a thread that stop()
\* has ended since.
C39_Witness ==
    /\ auto_trader # <<>>
    /\ auto_trader.call.fn = "start"
    /\ auto_trader.call.outcome = "raised"
    /\ ~auto_trader.running
    /\ rt_connected
    /\ ollama_ready
    /\ Model \notin loaded_models
    /\ auto_trader.scan_threads = <<"exited">>

(***************************************************************************)
(* Properties of the indicators.                                           *)
(***************************************************************************)
\* C31: at every index with a full window of period deltas, calculate_rsi
\* gives 100 when none of the window's deltas is negative and 0 when none
\* is positive (and one is negative).
C31_RsiAtTheExtremes ==
    (fn_call # <<>> /\ fn_call.fn = "calculate_rsi"
     /\ ~fn_call.result.raised) =>
        LET data == fn_call.args.data
            period == fn_call.args.period
            deltas == Deltas(data)
        IN \A k \in (period + 1)..Len(data) :
              LET window == {deltas[j] : j \in (k - period)..(k - 1)}
                  rsi == fn_call.result.values[k][1]
              IN /\ (\A d \in window : d >= 0) => rsi = Whole(100)
                 /\ ((\A d \in window : d <= 0) /\ (\E d \in window : d < 0))
                       => rsi = Whole(0)

\* The series length an indicator needs before it has a value.
Lookback(fn, period) ==
    CASE fn \in {"calculate_rsi", "calculate_atr"} -> period + 1
      [] fn = "calculate_vwap" -> 1
      [] OTHER -> period
Indicators ==
    {"calculate_ema", "calculate_rsi", "calculate_bollinger_bands",
     "calculate_atr", "calculate_macd", "calculate_vwap"}

\* C32: an indicator (EMA, RSI, Bollinger, ATR, MACD, VWAP) called on a
\* series shorter than its lookback, the empty series included, does not
\* raise and returns nothing but undefined values.
C32_ShortSeriesGivesUndefined ==
    (fn_call # <<>> /\ fn_call.fn \in Indicators
     /\ Len(fn_call.args.data) < Lookback(fn_call.fn, fn_call.args.period)) =>
        /\ ~fn_call.result.raised
        /\ \A k \in 1..Len(fn_call.result.values) :
              fn_call.result.values[k] = None

\* C36: detect_regime answers with the first label that matches, in the
\* order VOLATILE (ATR ratio > 1.2 and band-width ratio > 1.1), BREAKOUT
\* (|trend| > 0.5% and ATR ratio > 1.0), TRENDING_STRONG (|trend| > 0.5%),
\* TRENDING_WEAK (|trend| > 0.3%), and RANGING otherwise.  A ratio c / a > r
\* is c > r * a.
C36_RegimeFirstMatchWins ==
    (fn_call # <<>> /\ fn_call.fn = "detect_regime") =>
        LET q == fn_call.args
            trend == IF q.ema_diff < 0 THEN -q.ema_diff ELSE q.ema_diff
            volatile == /\ 10 * q.atr_current > 12 * q.atr_avg
                        /\ 10 * q.bb_width > 11 * q.bb_avg_width
            breakout == trend > 50 /\ q.atr_current > q.atr_avg
            strong == trend > 50
            weak == trend > 30
            label == fn_call.result
        IN /\ label = "VOLATILE" <=> volatile
           /\ label = "BREAKOUT" <=> (~volatile /\ breakout)
           /\ label = "TRENDING_STRONG" <=> (~volatile /\ ~breakout /\ strong)
           /\ label = "TRENDING_WEAK" <=>
                 (~volatile /\ ~breakout /\ ~strong /\ weak)
           /\ label = "RANGING" <=>
                 (~volatile /\ ~breakout /\ ~strong /\ ~weak)
\* detect_regime met a strong trend in expanding volatility and bands, where
\* both VOLATILE and BREAKOUT match, and answered VOLATILE.
C36_Witness ==
    /\ fn_call # <<>>
    /\ fn_call.fn = "detect_regime"
    /\ fn_call.args.ema_diff = 51
    /\ fn_call.args.atr_current = 13
    /\ fn_call.args.atr_avg = 10
    /\ fn_call.args.bb_width = 12
    /\ fn_call.args.bb_avg_width = 10
    /\ fn_call.result = "VOLATILE"

====
